---- MODULE Spec2Model ----
(***************************************************************************)
(* Navicane smart cane: the haptic actuator (vibration.py) driven by the   *)
(* fast ultrasonic loop (main.py), the alert gate (utils.py RateLimiter,   *)
(* speech.py SmartSpeech) and the slow camera loop (main.py).              *)
(*                                                                         *)
(* Time is discrete.  One tick is 50 ms, the period of the fast loop       *)
(* (ULTRASONIC_LOOP_DELAY); every time.sleep of vibration.py and of the    *)
(* fast loop is a whole number of ticks.  A sleeping thread carries a      *)
(* timer, acts when the timer is 0, and time advances only when no thread  *)
(* is due.  The alert gate reads a clock in whole seconds.                 *)
(***************************************************************************)
EXTENDS Integers, Sequences, FiniteSets, TLC

VARIABLES
    \* SmartCane (main.py)
    running,             \* self.running
    current_distance,    \* self.current_distance, NoReading for None
    fast_pc,             \* control point of _ultrasonic_vibration_loop
    fast_timer,          \* ticks left of the sleep the fast loop is in
    consecutive_errors,  \* local of _ultrasonic_vibration_loop
    timeouts,            \* history: consecutive measurements without echo
    \* VibrationController / VibrationMotor (vibration.py)
    pulse_thread,        \* self.pulse_thread is not None
    pulse_active,        \* self.pulse_active
    current_intensity,   \* self.current_intensity
    pulse_rate,          \* self.pulse_rate
    duty,                \* duty cycle last accepted by pwm.ChangeDutyCycle
    pwm_ok,              \* FALSE while pwm.ChangeDutyCycle raises
    pulses,              \* the _pulse_loop threads, by slot
    \* RateLimiter (utils.py) and SmartSpeech (speech.py)
    now,                 \* time.time(), in whole seconds
    last_triggered,      \* rate_limiter.last_triggered, NoEntry for an absent key
    speaking,            \* self.speaking
    created,             \* speech threads started that have not yet set speaking
    in_speech,           \* speech threads inside subprocess.run
    last_call,           \* history: the last call of the gate and its result
    call_bit,            \* history: flips at every call of the gate
    \* slow loop (main.py) and its camera
    slow_pc,             \* control point of _camera_speech_loop
    slow_errors,         \* consecutive_errors of _camera_speech_loop
    camera,              \* "acquired" or "released": state of self.camera
    camera_releases,     \* history: calls of cleanup() on the object in self.camera
    \* the distance lock and the locals of the threads that take it (main.py)
    distance_lock,       \* holder of self.distance_lock, or "free"
    fast_distance,       \* local distance of _ultrasonic_vibration_loop
    current_dist,        \* local current_dist of _camera_speech_loop
    published,           \* history: value of the last completed write
    status_pc,           \* control point of the status snapshot of main()
    \* SmartCane.stop and cleanup (main.py)
    stop_pc,             \* control point of stop()
    stop_timer,          \* ticks left of the sleep or join stop() is in
    pwm_stops,           \* history: calls of pwm.stop()
    gpio_cleanups,       \* history: calls of GPIO.cleanup()
    \* calls of _calculate_intensity on its own (vibration.py)
    calc_prev,           \* history: the call before the last, input and result
    calc_last,           \* history: the last call, input and result
    \* one call of UltrasonicSensor.get_distance (ultrasonic.py)
    sensor_pc,           \* control point of get_distance
    sensor_time,         \* time.time() since the call began, in poll periods
    timeout_start,       \* local timeout_start
    pulse_start,         \* local pulse_start
    pulse_end,           \* local pulse_end
    echo_line,           \* level of the echo pin
    sensor_result,       \* history: what the call returned
    \* history of the alert path (speech.py, main.py)
    alert_distance,      \* distance passed to the last announce_critical_object
    sample_reads,        \* iterations of the slow loop that read the published sample
    slow_timer,          \* ticks left of the sleep that ends a slow iteration
    pulse_written,       \* per pulse thread, the value of its last write to the motor
    seen,                \* what the last slow iteration got from the camera
    last_outcome,        \* how the speech worker that ended last came to its end
    speech_lock,         \* holder of SmartSpeech.speech_lock, or "free"
    ask,                 \* the speech request the slow loop is working on
    ready_said           \* start() has made its final announcement

vibVars == <<pulse_thread, pulse_active, current_intensity, pulse_rate, duty, pulses>>
fastVars == <<running, current_distance, fast_pc, fast_timer, consecutive_errors, timeouts>>
speechVars == <<now, last_triggered, speaking, created, in_speech, last_call, call_bit>>
slowVars == <<slow_pc, slow_errors, camera, camera_releases>>
lockVars == <<distance_lock, fast_distance, current_dist, published, status_pc>>
stopVars == <<stop_pc, stop_timer, pwm_stops, gpio_cleanups>>
unitVars == <<calc_prev, calc_last, sensor_pc, sensor_time, timeout_start,
              pulse_start, pulse_end, echo_line, sensor_result>>
histVars == <<alert_distance, sample_reads, slow_timer, pulse_written, seen, last_outcome, speech_lock, ask, ready_said>>
alertVars == <<speechVars, slowVars, lockVars, stopVars, unitVars, histVars>>
vars == <<running, current_distance, fast_pc, fast_timer, consecutive_errors,
          timeouts, pulse_thread, pulse_active, current_intensity, pulse_rate,
          duty, pwm_ok, pulses, now, last_triggered, speaking, created,
          in_speech, last_call, call_bit, slow_pc, slow_errors, camera,
          camera_releases, distance_lock, fast_distance, current_dist, published,
          status_pc, stop_pc, stop_timer, pwm_stops, gpio_cleanups, calc_prev,
          calc_last, sensor_pc, sensor_time, timeout_start, pulse_start,
          pulse_end, echo_line, sensor_result, alert_distance, sample_reads,
          slow_timer, pulse_written, seen, last_outcome, speech_lock, ask, ready_said>>

----------------------------------------------------------------------------
\* Bounds of the model

\* pulse threads the platform lets live at once; Thread.start raises beyond it
MaxPulse == 2
\* cap of the history counter of consecutive measurements without echo
MaxTimeouts == 11

----------------------------------------------------------------------------
\* Program constants

\* ULTRASONIC_LOOP_DELAY = 0.05 s is one tick
LoopDelay == 1
TicksPerSecond == 20 * LoopDelay
\* time.sleep(0.1) in update_from_distance and in off
CancelWait == TicksPerSecond \div 10
\* time.sleep(1) after a failed iteration of the fast loop
ErrorBackoff == TicksPerSecond
\* max_errors of _ultrasonic_vibration_loop
max_errors_fast == 10

\* None
NoReading == -1
\* the echo line never changed level within SENSOR_TIMEOUT
NoEcho == -2
\* an exception leaving the call
Raised == -3
\* get_distance has not returned
NotReturned == -4
\* no call of _calculate_intensity yet
NoCalc == [distance |-> NoReading, intensity |-> 0, pulse_rate |-> 0, zone |-> "none"]

\* a table whose warning zone begins one centimetre late
VIBRATION_RANGES_gap ==
    << [zone |-> "critical", min |-> 0,   max |-> 30],
       [zone |-> "danger",   min |-> 30,  max |-> 60],
       [zone |-> "warning",  min |-> 61,  max |-> 100],
       [zone |-> "caution",  min |-> 100, max |-> 150],
       [zone |-> "clear",    min |-> 150, max |-> 400] >>

VIBRATION_RANGES ==
    << [zone |-> "critical", min |-> 0,   max |-> 30],
       [zone |-> "danger",   min |-> 30,  max |-> 60],
       [zone |-> "warning",  min |-> 60,  max |-> 100],
       [zone |-> "caution",  min |-> 100, max |-> 150],
       [zone |-> "clear",    min |-> 150, max |-> 400] >>

VIBRATION_PULSE_RATES ==
    [z \in {"critical", "danger", "warning", "caution", "clear"} |->
        CASE z = "critical" -> 0
          [] z = "danger"   -> 5
          [] z = "warning"  -> 2
          [] z = "caution"  -> 1
          [] z = "clear"    -> 0]

\* what the echo line can do in one measurement: nothing, or a pulse whose
\* length converts to this many centimetres
Echoes == {NoEcho, 20, 45, 120, 200}
\* the measurements of the specification that counts the missing echoes
TimeoutEchoes == {NoEcho, 20, 45}

----------------------------------------------------------------------------
\* UltrasonicSensor.get_distance: every failure path returns None

\* get_distance were it to raise on a missing echo instead of returning None
get_distance_raising(echo) ==
    IF echo = NoEcho THEN Raised
    ELSE IF 2 <= echo /\ echo <= 400 THEN echo
    ELSE NoReading

get_distance(echo) ==
    IF echo = NoEcho THEN NoReading
    ELSE IF 2 <= echo /\ echo <= 400 THEN echo
    ELSE NoReading

----------------------------------------------------------------------------
\* VibrationController._calculate_intensity

ZoneIntensity(zone, distance) ==
    CASE zone = "critical" -> 100
      [] zone = "danger"   -> 100 - (((distance - 30) * 30) \div 30)
      [] zone = "warning"  -> 70 - (((distance - 60) * 30) \div 40)
      [] zone = "caution"  -> 40 - (((distance - 100) * 20) \div 50)
      [] OTHER             -> 0

MatchingZones(distance) ==
    {i \in 1..Len(VIBRATION_RANGES) :
        VIBRATION_RANGES[i].min <= distance /\ distance < VIBRATION_RANGES[i].max}

_calculate_intensity(distance) ==
    IF distance = NoReading
    THEN [intensity |-> 0, pulse_rate |-> 0, zone |-> "no_reading"]
    ELSE IF MatchingZones(distance) = {}
    THEN [intensity |-> 0, pulse_rate |-> 0, zone |-> "clear"]
    ELSE LET i == CHOOSE j \in MatchingZones(distance) :
                      \A k \in MatchingZones(distance) : j <= k
             z == VIBRATION_RANGES[i].zone
         IN [intensity |-> ZoneIntensity(z, distance),
             pulse_rate |-> VIBRATION_PULSE_RATES[z],
             zone |-> z]

\* VibrationMotor.set_intensity clamps before ChangeDutyCycle
Clamp(intensity) ==
    IF intensity < 0 THEN 0 ELSE IF intensity > 100 THEN 100 ELSE intensity

\* pulse_duration of _pulse_loop, in ticks
PulseDuration(rate) ==
    IF rate > 0 THEN TicksPerSecond \div (rate * 2) ELSE TicksPerSecond \div 2

----------------------------------------------------------------------------
\* _calculate_intensity on the distances the sensor returns.  get_distance
\* rounds to two decimals, so a distance is a whole number of hundredths of a
\* centimetre; the integer part taken by int() is the quotient of \div, the
\* operands being non-negative inside a zone.

Hundredths == 100

\* an interpolation whose danger zone rises from 70 to 100 with the distance
ZoneIntensityFine_rising(zone, h) ==
    CASE zone = "critical" -> 100
      [] zone = "danger"   -> 70 + (((h - 30 * Hundredths) * 30) \div (30 * Hundredths))
      [] zone = "warning"  -> 70 - (((h - 60 * Hundredths) * 30) \div (40 * Hundredths))
      [] zone = "caution"  -> 40 - (((h - 100 * Hundredths) * 20) \div (50 * Hundredths))
      [] OTHER             -> 0

\* an interpolation whose warning zone ends at 45 instead of 40
ZoneIntensityFine_shallow(zone, h) ==
    CASE zone = "critical" -> 100
      [] zone = "danger"   -> 100 - (((h - 30 * Hundredths) * 30) \div (30 * Hundredths))
      [] zone = "warning"  -> 70 - (((h - 60 * Hundredths) * 25) \div (40 * Hundredths))
      [] zone = "caution"  -> 40 - (((h - 100 * Hundredths) * 20) \div (50 * Hundredths))
      [] OTHER             -> 0

\* an interpolation whose warning zone falls as fast as the danger zone
ZoneIntensityFine_steep(zone, h) ==
    CASE zone = "critical" -> 100
      [] zone = "danger"   -> 100 - (((h - 30 * Hundredths) * 30) \div (30 * Hundredths))
      [] zone = "warning"  -> 70 - (((h - 60 * Hundredths) * 30) \div (30 * Hundredths))
      [] zone = "caution"  -> 40 - (((h - 100 * Hundredths) * 20) \div (50 * Hundredths))
      [] OTHER             -> 0

ZoneIntensityFine(zone, h) ==
    CASE zone = "critical" -> 100
      [] zone = "danger"   -> 100 - (((h - 30 * Hundredths) * 30) \div (30 * Hundredths))
      [] zone = "warning"  -> 70 - (((h - 60 * Hundredths) * 30) \div (40 * Hundredths))
      [] zone = "caution"  -> 40 - (((h - 100 * Hundredths) * 20) \div (50 * Hundredths))
      [] OTHER             -> 0

MatchingZonesFine(h) ==
    {i \in 1..Len(VIBRATION_RANGES) :
        /\ VIBRATION_RANGES[i].min * Hundredths <= h
        /\ h < VIBRATION_RANGES[i].max * Hundredths}

_calculate_intensity_fine(h) ==
    IF h = NoReading
    THEN [intensity |-> 0, pulse_rate |-> 0, zone |-> "no_reading"]
    ELSE IF MatchingZonesFine(h) = {}
    THEN [intensity |-> 0, pulse_rate |-> 0, zone |-> "clear"]
    ELSE LET i == CHOOSE j \in MatchingZonesFine(h) :
                      \A k \in MatchingZonesFine(h) : j <= k
             z == VIBRATION_RANGES[i].zone
         IN [intensity |-> ZoneIntensityFine(z, h),
             pulse_rate |-> VIBRATION_PULSE_RATES[z],
             zone |-> z]

\* the zone boundaries of the table, in hundredths
Boundaries == {30 * Hundredths, 60 * Hundredths, 100 * Hundredths, 150 * Hundredths}

\* the inputs of the calls: None, every fifth centimetre up to 405, the
\* hundredths around the ends of the intervals and of the sensor's range, and
\* the places where the interpolation of a zone steps
CalcDistances ==
    {NoReading}
        \cup {5 * Hundredths * k : k \in 0..81}
        \cup {b - 1 : b \in Boundaries} \cup {b + 1 : b \in Boundaries}
        \cup {1, 199, 200, 3099, 3100, 6133, 6134, 10249, 10250, 39999, 40001}

\* a call of _calculate_intensity that also stores the intensity it computed
ClassifyOf_stores(ds) ==
    /\ \E d \in ds :
         LET r == _calculate_intensity_fine(d)
         IN /\ calc_prev' = calc_last
            /\ calc_last' = [distance |-> d, intensity |-> r.intensity,
                             pulse_rate |-> r.pulse_rate, zone |-> r.zone]
            /\ current_intensity' = r.intensity
    /\ UNCHANGED <<pulse_thread, pulse_active, pulse_rate, duty, pulses>>
    /\ UNCHANGED <<fastVars, pwm_ok, speechVars, slowVars, lockVars, stopVars>>
    /\ UNCHANGED <<sensor_pc, sensor_time, timeout_start, pulse_start, pulse_end,
                   echo_line, sensor_result>>
    /\ UNCHANGED histVars

\* a call of _calculate_intensity on its own, as in the module's test: it
\* reads the tables and its argument, and assigns no attribute
ClassifyOf(ds) ==
    /\ \E d \in ds :
         LET r == _calculate_intensity_fine(d)
         IN /\ calc_prev' = calc_last
            /\ calc_last' = [distance |-> d, intensity |-> r.intensity,
                             pulse_rate |-> r.pulse_rate, zone |-> r.zone]
    /\ UNCHANGED <<fastVars, vibVars, pwm_ok, speechVars, slowVars, lockVars, stopVars>>
    /\ UNCHANGED <<sensor_pc, sensor_time, timeout_start, pulse_start, pulse_end,
                   echo_line, sensor_result>>
    /\ UNCHANGED histVars

Classify == ClassifyOf(CalcDistances)

\* the calls made while the fast loop drives the motor: no reading, the
\* critical zone, a pulsed zone and a distance beyond the table
ProbeDistances == {NoReading, 25 * Hundredths, 90 * Hundredths, 400 * Hundredths}

ClassifyProbe == ClassifyOf(ProbeDistances)

----------------------------------------------------------------------------
\* One measurement of the ultrasonic sensor, poll by poll
\*
\* The clock of get_distance counts units of 1/17150 s from the call, the
\* time in which the echo distance grows by one centimetre, so that
\* pulse_duration * 17150 is the difference of two clock values.

\* SENSOR_TIMEOUT = 0.1 s in clock units
SENSOR_TIMEOUT == 1715

\* the times, counted from the entry of a loop, at which the loop polls the
\* echo line: both sides of the two ends of the range and of the timeout
PollInstants == {1, 2, 400, 401, 1715, 1716, 2000}

\* the ways get_distance ends: its return statements and its except clause
SensorEnds == {"timeout_rise", "timeout_fall", "measured", "out_of_range", "error"}

\* a range check that rejects the two ends of the range
InRange_open(h) == 2 * Hundredths < h /\ h < 400 * Hundredths

\* if 2 <= distance <= 400
InRange(h) == 2 * Hundredths <= h /\ h <= 400 * Hundredths

\* round(pulse_duration * 17150, 2), in hundredths of a centimetre
EchoDistance == (pulse_end - pulse_start) * Hundredths

\* the call: the trigger pulse, then pulse_start and timeout_start are taken
SensorCall ==
    /\ sensor_pc \in {"idle"} \cup SensorEnds
    /\ sensor_pc' = "rise"
    /\ sensor_time' = 0
    /\ pulse_start' = 0
    /\ timeout_start' = 0
    /\ pulse_end' = 0
    /\ sensor_result' = NotReturned
    /\ UNCHANGED echo_line
    /\ UNCHANGED <<fastVars, vibVars, pwm_ok, speechVars, slowVars, lockVars, stopVars>>
    /\ UNCHANGED <<calc_prev, calc_last, histVars>>

\* the call when GPIO.output raises: the except clause returns None
SensorTriggerRaises ==
    /\ sensor_pc \in {"idle"} \cup SensorEnds
    /\ sensor_pc' = "error"
    /\ sensor_time' = 0
    /\ pulse_start' = 0
    /\ timeout_start' = 0
    /\ pulse_end' = 0
    /\ sensor_result' = NoReading
    /\ UNCHANGED echo_line
    /\ UNCHANGED <<fastVars, vibVars, pwm_ok, speechVars, slowVars, lockVars, stopVars>>
    /\ UNCHANGED <<calc_prev, calc_last, histVars>>

\* GPIO.input raises in one of the two loops: the except clause returns None
SensorInputRaises ==
    /\ sensor_pc \in {"rise", "fall"}
    /\ sensor_pc' = "error"
    /\ sensor_result' = NoReading
    /\ UNCHANGED <<sensor_time, timeout_start, pulse_start, pulse_end, echo_line>>
    /\ UNCHANGED <<fastVars, vibVars, pwm_ok, speechVars, slowVars, lockVars, stopVars>>
    /\ UNCHANGED <<calc_prev, calc_last, histVars>>

\* a first loop that never tests the time
SensorPollRise_unbounded ==
    /\ sensor_pc = "rise"
    /\ IF echo_line = "HIGH"
       THEN /\ pulse_end' = sensor_time
            /\ timeout_start' = sensor_time
            /\ sensor_pc' = "fall"
            /\ UNCHANGED <<pulse_start, sensor_result>>
       ELSE /\ pulse_start' = sensor_time
            /\ UNCHANGED <<sensor_pc, sensor_result, pulse_end, timeout_start>>
    /\ UNCHANGED <<sensor_time, echo_line>>
    /\ UNCHANGED <<fastVars, vibVars, pwm_ok, speechVars, slowVars, lockVars, stopVars>>
    /\ UNCHANGED <<calc_prev, calc_last, histVars>>

\* one pass of "while GPIO.input(echo) == LOW", and the two assignments
\* that follow the loop when the line is high
SensorPollRise ==
    /\ sensor_pc = "rise"
    /\ IF echo_line = "HIGH"
       THEN /\ pulse_end' = sensor_time
            /\ timeout_start' = sensor_time
            /\ sensor_pc' = "fall"
            /\ UNCHANGED <<pulse_start, sensor_result>>
       ELSE /\ pulse_start' = sensor_time
            /\ IF sensor_time - timeout_start > SENSOR_TIMEOUT
               THEN /\ sensor_pc' = "timeout_rise"
                    /\ sensor_result' = NoReading
               ELSE UNCHANGED <<sensor_pc, sensor_result>>
            /\ UNCHANGED <<pulse_end, timeout_start>>
    /\ UNCHANGED <<sensor_time, echo_line>>
    /\ UNCHANGED <<fastVars, vibVars, pwm_ok, speechVars, slowVars, lockVars, stopVars>>
    /\ UNCHANGED <<calc_prev, calc_last, histVars>>

\* one pass of "while GPIO.input(echo) == HIGH", and the computation that
\* follows the loop when the line is low
SensorPollFall ==
    /\ sensor_pc = "fall"
    /\ IF echo_line = "LOW"
       THEN /\ IF InRange(EchoDistance)
               THEN /\ sensor_pc' = "measured"
                    /\ sensor_result' = EchoDistance
               ELSE /\ sensor_pc' = "out_of_range"
                    /\ sensor_result' = NoReading
            /\ UNCHANGED pulse_end
       ELSE /\ pulse_end' = sensor_time
            /\ IF sensor_time - timeout_start > SENSOR_TIMEOUT
               THEN /\ sensor_pc' = "timeout_fall"
                    /\ sensor_result' = NoReading
               ELSE UNCHANGED <<sensor_pc, sensor_result>>
    /\ UNCHANGED <<sensor_time, timeout_start, pulse_start, echo_line>>
    /\ UNCHANGED <<fastVars, vibVars, pwm_ok, speechVars, slowVars, lockVars, stopVars>>
    /\ UNCHANGED <<calc_prev, calc_last, histVars>>

\* time passes until the next poll; once the timeout has passed the next
\* step of the thread is its poll
SensorTick ==
    /\ sensor_pc \in {"rise", "fall"}
    /\ sensor_time - timeout_start <= SENSOR_TIMEOUT
    /\ \E e \in PollInstants :
         /\ timeout_start + e > sensor_time
         /\ sensor_time' = timeout_start + e
    /\ UNCHANGED <<sensor_pc, timeout_start, pulse_start, pulse_end, echo_line,
                   sensor_result>>
    /\ UNCHANGED <<fastVars, vibVars, pwm_ok, speechVars, slowVars, lockVars, stopVars>>
    /\ UNCHANGED <<calc_prev, calc_last, histVars>>

\* the sensor raises its echo line
EchoRise ==
    /\ sensor_pc \in {"rise", "fall"}
    /\ echo_line = "LOW"
    /\ echo_line' = "HIGH"
    /\ UNCHANGED <<sensor_pc, sensor_time, timeout_start, pulse_start, pulse_end,
                   sensor_result>>
    /\ UNCHANGED <<fastVars, vibVars, pwm_ok, speechVars, slowVars, lockVars, stopVars>>
    /\ UNCHANGED <<calc_prev, calc_last, histVars>>

\* the sensor lowers its echo line
EchoFall ==
    /\ sensor_pc \in {"rise", "fall"}
    /\ echo_line = "HIGH"
    /\ echo_line' = "LOW"
    /\ UNCHANGED <<sensor_pc, sensor_time, timeout_start, pulse_start, pulse_end,
                   sensor_result>>
    /\ UNCHANGED <<fastVars, vibVars, pwm_ok, speechVars, slowVars, lockVars, stopVars>>
    /\ UNCHANGED <<calc_prev, calc_last, histVars>>

----------------------------------------------------------------------------
\* Pulse threads

NoThread == [pc |-> "none", timer |-> 0, dur |-> 0]

Alive == {i \in 1..MaxPulse : pulses[i].pc # "none"}

FreeSlots == {i \in 1..MaxPulse : pulses[i].pc = "none"}

\* threading.Thread(target=self._pulse_loop).start()
Spawn == LET i == CHOOSE j \in FreeSlots : \A k \in FreeSlots : j <= k
         IN [pulses EXCEPT ![i] = [pc |-> "start", timer |-> 0, dur |-> 0]]

\* first statement of _pulse_loop: the half period, from self.pulse_rate
PulseStartBody(i) ==
    /\ pulses[i].pc = "start"
    /\ pulses' = [pulses EXCEPT ![i] =
                    [pc |-> "check", timer |-> 0, dur |-> PulseDuration(pulse_rate)]]
    /\ UNCHANGED <<pulse_thread, pulse_active, current_intensity, pulse_rate, duty>>
    /\ UNCHANGED <<fastVars, pwm_ok>>

PulseStart(i) == PulseStartBody(i) /\ UNCHANGED alertVars

\* while self.pulse_active: self.motor.set_intensity(self.current_intensity)
PulseCheckBody(i) ==
    /\ pulses[i].pc = "check"
    /\ pulses[i].timer = 0
    /\ IF pulse_active /\ pwm_ok
       THEN /\ duty' = Clamp(current_intensity)
            /\ pulses' = [pulses EXCEPT ![i].pc = "on", ![i].timer = pulses[i].dur]
       ELSE \* the flag is cleared, or the write raised and ended the thread
            /\ pulses' = [pulses EXCEPT ![i] = NoThread]
            /\ duty' = duty
    /\ UNCHANGED <<pulse_thread, pulse_active, current_intensity, pulse_rate>>
    /\ UNCHANGED <<fastVars, pwm_ok>>

PulseCheck(i) == PulseCheckBody(i) /\ UNCHANGED alertVars

\* an off phase without its sleep: the loop tests the flag right after the write
PulseOffBody_nosleep(i) ==
    /\ pulses[i].pc = "on"
    /\ pulses[i].timer = 0
    /\ IF pwm_ok
       THEN /\ duty' = 0
            /\ pulses' = [pulses EXCEPT ![i].pc = "check", ![i].timer = 0]
       ELSE /\ pulses' = [pulses EXCEPT ![i] = NoThread]
            /\ duty' = duty
    /\ UNCHANGED <<pulse_thread, pulse_active, current_intensity, pulse_rate>>
    /\ UNCHANGED <<fastVars, pwm_ok>>

\* self.motor.off() after the on phase, then the off phase
PulseOffBody(i) ==
    /\ pulses[i].pc = "on"
    /\ pulses[i].timer = 0
    /\ IF pwm_ok
       THEN /\ duty' = 0
            /\ pulses' = [pulses EXCEPT ![i].pc = "check", ![i].timer = pulses[i].dur]
       ELSE /\ pulses' = [pulses EXCEPT ![i] = NoThread]
            /\ duty' = duty
    /\ UNCHANGED <<pulse_thread, pulse_active, current_intensity, pulse_rate>>
    /\ UNCHANGED <<fastVars, pwm_ok>>

PulseOff(i) == PulseOffBody(i) /\ UNCHANGED alertVars

\* the threads with the record of what each wrote last: a thread has written
\* nothing when it starts, and a write that raises is no write
NoWrite == -1

PulseStartTraced(i) ==
    /\ PulseStartBody(i)
    /\ pulse_written' = [pulse_written EXCEPT ![i] = NoWrite]
    /\ UNCHANGED <<speechVars, slowVars, lockVars, stopVars, unitVars>>
    /\ UNCHANGED <<alert_distance, sample_reads, slow_timer, seen, last_outcome, speech_lock, ask, ready_said>>

PulseCheckTraced(i) ==
    /\ PulseCheckBody(i)
    /\ pulse_written' = IF pulses'[i].pc = "on"
                        THEN [pulse_written EXCEPT ![i] = duty']
                        ELSE pulse_written
    /\ UNCHANGED <<speechVars, slowVars, lockVars, stopVars, unitVars>>
    /\ UNCHANGED <<alert_distance, sample_reads, slow_timer, seen, last_outcome, speech_lock, ask, ready_said>>

PulseOffTraced(i) ==
    /\ PulseOffBody(i)
    /\ pulse_written' = IF pulses'[i].pc = "check"
                        THEN [pulse_written EXCEPT ![i] = duty']
                        ELSE pulse_written
    /\ UNCHANGED <<speechVars, slowVars, lockVars, stopVars, unitVars>>
    /\ UNCHANGED <<alert_distance, sample_reads, slow_timer, seen, last_outcome, speech_lock, ask, ready_said>>

----------------------------------------------------------------------------
\* Fast loop: _ultrasonic_vibration_loop with update_from_distance and off

\* an except branch that does not count the failure
FastFail_uncounted ==
    /\ consecutive_errors' = consecutive_errors
    /\ pulse_active' = FALSE
    /\ fast_pc' = "off_wait"
    /\ fast_timer' = CancelWait

\* except branch of the loop up to the sleep inside VibrationController.off
FastFail ==
    /\ consecutive_errors' = consecutive_errors + 1
    /\ pulse_active' = FALSE
    /\ fast_pc' = "off_wait"
    /\ fast_timer' = CancelWait

\* update_from_distance after the cancel wait: drive the motor or start a
\* pulse thread; then the end of the iteration, or its except branch
Apply(intensity, rate) ==
    IF intensity = 0 \/ rate = 0
    THEN IF pwm_ok
         THEN /\ duty' = Clamp(intensity)
              /\ consecutive_errors' = 0
              /\ fast_pc' = "iter"
              /\ fast_timer' = LoopDelay
              /\ UNCHANGED <<pulse_active, pulse_thread, pulses>>
         ELSE /\ FastFail
              /\ UNCHANGED <<duty, pulse_thread, pulses>>
    ELSE IF FreeSlots # {}
         THEN /\ pulse_active' = TRUE
              /\ pulse_thread' = TRUE
              /\ pulses' = Spawn
              /\ consecutive_errors' = 0
              /\ fast_pc' = "iter"
              /\ fast_timer' = LoopDelay
              /\ UNCHANGED duty
         ELSE \* Thread.start raises: no thread left to start
              /\ FastFail
              /\ pulse_thread' = TRUE
              /\ UNCHANGED <<duty, pulses>>

\* update_from_distance up to its sleep, or to the end of the iteration when
\* no pulse thread has to be cancelled
update_from_distance(d) ==
    LET cmd == _calculate_intensity(d)
    IN /\ current_intensity' = cmd.intensity
       /\ pulse_rate' = cmd.pulse_rate
       /\ IF pulse_thread /\ pulse_active
          THEN /\ pulse_active' = FALSE
               /\ fast_pc' = "cancel_wait"
               /\ fast_timer' = CancelWait
               /\ UNCHANGED <<consecutive_errors, duty, pulse_thread, pulses>>
          ELSE Apply(cmd.intensity, cmd.pulse_rate)

\* loop test, read_distance, publication, update_from_distance up to its sleep;
\* counting says whether the history counter follows the measurements
FastBody(echoes, counting) ==
    /\ fast_pc = "iter"
    /\ fast_timer = 0
    /\ IF ~running
       THEN /\ fast_pc' = "exit_flag"
            /\ UNCHANGED <<current_distance, fast_timer, consecutive_errors, timeouts>>
            /\ UNCHANGED vibVars
       ELSE \E echo \in echoes :
            LET distance == get_distance(echo)
            IN /\ (counting /\ echo = NoEcho) => timeouts < MaxTimeouts
               /\ timeouts' = IF ~counting THEN timeouts
                              ELSE IF echo = NoEcho THEN timeouts + 1 ELSE 0
               /\ IF distance = Raised
                  THEN /\ FastFail
                       /\ UNCHANGED <<current_distance, current_intensity, pulse_rate,
                                      duty, pulse_thread, pulses>>
                  ELSE /\ current_distance' = distance
                       /\ update_from_distance(distance)
    /\ UNCHANGED <<running, pwm_ok>>

\* one iteration of the fast loop on its own
FastIteration(echoes, counting) ==
    /\ FastBody(echoes, counting)
    /\ UNCHANGED alertVars

FastMeasure == FastIteration(Echoes, FALSE)

FastMeasureCounted == FastIteration(TimeoutEchoes, TRUE)

\* update_from_distance resumes after time.sleep(0.1)
FastApply ==
    /\ fast_pc = "cancel_wait"
    /\ fast_timer = 0
    /\ Apply(current_intensity, pulse_rate)
    /\ UNCHANGED <<running, current_distance, timeouts, current_intensity, pulse_rate, pwm_ok>>
    /\ UNCHANGED alertVars

\* an off() that clears the flag and leaves the duty cycle as it is
FastOffDone_nowrite ==
    /\ fast_pc = "off_wait"
    /\ fast_timer = 0
    /\ duty' = duty
    /\ IF consecutive_errors >= max_errors_fast
       THEN /\ fast_pc' = "exit_errors"
            /\ fast_timer' = 0
       ELSE /\ fast_pc' = "iter"
            /\ fast_timer' = ErrorBackoff
    /\ UNCHANGED <<running, current_distance, consecutive_errors, timeouts>>
    /\ UNCHANGED <<pulse_thread, pulse_active, current_intensity, pulse_rate, pulses, pwm_ok>>
    /\ UNCHANGED alertVars

\* VibrationController.off resumes after time.sleep(0.1): motor.off(), any
\* exception swallowed; then the ceiling test of the except branch
FastOffDone ==
    /\ fast_pc = "off_wait"
    /\ fast_timer = 0
    /\ duty' = IF pwm_ok THEN 0 ELSE duty
    /\ IF consecutive_errors >= max_errors_fast
       THEN /\ fast_pc' = "exit_errors"
            /\ fast_timer' = 0
       ELSE /\ fast_pc' = "iter"
            /\ fast_timer' = ErrorBackoff
    /\ UNCHANGED <<running, current_distance, consecutive_errors, timeouts>>
    /\ UNCHANGED <<pulse_thread, pulse_active, current_intensity, pulse_rate, pulses, pwm_ok>>
    /\ UNCHANGED alertVars

----------------------------------------------------------------------------
\* SmartCane.start and stop: the running flag and the two loop threads.  The
\* announcements of start and stop are calls of speak_urgent, see SpeakCall.

Start ==
    /\ ~running
    /\ fast_pc = "idle"
    /\ slow_pc = "idle"
    /\ running' = TRUE
    /\ fast_pc' = "iter"
    /\ slow_pc' = "iter"
    /\ UNCHANGED <<current_distance, fast_timer, consecutive_errors, timeouts>>
    /\ UNCHANGED <<vibVars, pwm_ok, speechVars, slow_errors, camera, camera_releases>>
    /\ UNCHANGED <<lockVars, stopVars, unitVars, histVars>>

Stop ==
    /\ running
    /\ stop_pc = "idle"
    /\ status_pc = "idle"
    /\ running' = FALSE
    /\ stop_pc' = "announce"
    /\ UNCHANGED <<current_distance, fast_pc, fast_timer, consecutive_errors, timeouts>>
    /\ UNCHANGED <<vibVars, pwm_ok, speechVars, slowVars, lockVars>>
    /\ UNCHANGED <<stop_timer, pwm_stops, gpio_cleanups, unitVars, histVars>>

----------------------------------------------------------------------------
\* The PWM peripheral: ChangeDutyCycle starts or stops raising

PwmFail ==
    /\ pwm_ok
    /\ pwm_ok' = FALSE
    /\ UNCHANGED <<fastVars, vibVars>>
    /\ UNCHANGED alertVars

PwmRecover ==
    /\ ~pwm_ok
    /\ pwm_ok' = TRUE
    /\ UNCHANGED <<fastVars, vibVars>>
    /\ UNCHANGED alertVars

----------------------------------------------------------------------------
\* Passage of time

FastSleeping == fast_pc \in {"iter", "cancel_wait", "off_wait"}

\* stop() inside time.sleep or Thread.join(timeout)
StopSleeping ==
    stop_pc \in {"announce_wait", "join_fast", "join_slow", "all_off_wait",
                 "cleanup_wait", "speech_wait"}

\* the slow loop inside the time.sleep that ends its iteration
SlowSleeping == slow_timer > 0

Timers ==
    (IF FastSleeping THEN {fast_timer} ELSE {})
        \cup (IF StopSleeping THEN {stop_timer} ELSE {})
        \cup (IF SlowSleeping THEN {slow_timer} ELSE {})
        \cup {pulses[i].timer : i \in {j \in Alive : pulses[j].pc \in {"on", "check"}}}

Due == (\E i \in Alive : pulses[i].pc = "start") \/ 0 \in Timers

Advance ==
    /\ ~Due
    /\ Timers # {}
    /\ LET delta == CHOOSE t \in Timers : \A u \in Timers : t <= u
       IN /\ fast_timer' = IF FastSleeping THEN fast_timer - delta ELSE fast_timer
          /\ stop_timer' = IF StopSleeping THEN stop_timer - delta ELSE stop_timer
          /\ slow_timer' = IF SlowSleeping THEN slow_timer - delta ELSE slow_timer
          /\ pulses' = [i \in 1..MaxPulse |->
                          IF pulses[i].pc \in {"on", "check"}
                          THEN [pulses[i] EXCEPT !.timer = pulses[i].timer - delta]
                          ELSE pulses[i]]
    /\ UNCHANGED <<running, current_distance, fast_pc, consecutive_errors, timeouts>>
    /\ UNCHANGED <<pulse_thread, pulse_active, current_intensity, pulse_rate, duty, pwm_ok>>
    /\ UNCHANGED <<speechVars, slowVars, lockVars, stop_pc, pwm_stops, gpio_cleanups>>
    /\ UNCHANGED <<unitVars, alert_distance, sample_reads, pulse_written, seen, last_outcome, speech_lock, ask, ready_said>>

----------------------------------------------------------------------------
\* Alert gate: RateLimiter (utils.py) and SmartSpeech (speech.py)

\* bounds
\* last second the clock of the gate reaches
MaxTime == 5
\* speech threads alive at once
MaxWorkers == 2

\* SPEECH_COOLDOWN, seconds
SPEECH_COOLDOWN == 5
\* SPEECH_TRIGGER_DISTANCE, cm
SPEECH_TRIGGER_DISTANCE == 80
\* CAMERA_TRIGGER_DISTANCE, cm
CAMERA_TRIGGER_DISTANCE == 150
\* the critical zone of announce_critical_object: distance < 30
CRITICAL_DISTANCE == 30
\* max_errors of _camera_speech_loop
max_errors_slow == 5
\* key absent from last_triggered
NoEntry == -1

\* object classes the detector reports in this model
Objects == {"person", "diningtable"}
\* object classes passed to announce_critical_object directly
AnnouncedObjects == {"diningtable"}
\* texts passed to speak directly
Texts == {"table", "Warning table"}
\* distances passed to announce_critical_object directly
AnnounceDistances == {NoReading, 20, 50, 80}

\* speech_map.get(object_name, object_name)
speech_map(object_name) ==
    CASE object_name = "motorbike"    -> "motorcycle"
      [] object_name = "diningtable"  -> "table"
      [] object_name = "dining table" -> "table"
      [] object_name = "pottedplant"  -> "plant"
      [] object_name = "potted plant" -> "plant"
      [] object_name = "handbag"      -> "bag"
      [] object_name = "cell phone"   -> "phone"
      [] object_name = "tv"           -> "television"
      [] OTHER                        -> object_name

\* f"Warning {speech_text}"
Warning(speech_text) == "Warning " \o speech_text

Keys == Texts \cup {speech_map(o) : o \in Objects}
              \cup {Warning(speech_map(o)) : o \in Objects}

\* can_trigger with the boundary of the cooldown excluded
can_trigger_strict(lt, key, t) ==
    IF lt[key] = NoEntry
    THEN [ret |-> TRUE, last_triggered |-> [lt EXCEPT ![key] = t]]
    ELSE IF t - lt[key] > SPEECH_COOLDOWN
    THEN [ret |-> TRUE, last_triggered |-> [lt EXCEPT ![key] = t]]
    ELSE [ret |-> FALSE, last_triggered |-> lt]

\* RateLimiter.can_trigger at time t: the result and the dictionary it leaves
can_trigger(lt, key, t) ==
    IF lt[key] = NoEntry
    THEN [ret |-> TRUE, last_triggered |-> [lt EXCEPT ![key] = t]]
    ELSE IF t - lt[key] >= SPEECH_COOLDOWN
    THEN [ret |-> TRUE, last_triggered |-> [lt EXCEPT ![key] = t]]
    ELSE [ret |-> FALSE, last_triggered |-> lt]

\* reset that deletes the entry of every key
reset_all(lt, key) == [k \in DOMAIN lt |-> NoEntry]

\* reset that deletes nothing
reset_keeps(lt, key) == lt

\* RateLimiter.reset
reset(lt, key) ==
    IF lt[key] # NoEntry THEN [lt EXCEPT ![key] = NoEntry] ELSE lt

\* speak that lets nothing through while speaking is set, forced or not
speak_never_overlaps(lt, text, force) ==
    IF speaking
    THEN [ret |-> FALSE, last_triggered |-> lt, started |-> FALSE]
    ELSE IF ~force /\ ~can_trigger(lt, text, now).ret
    THEN [ret |-> FALSE, last_triggered |-> lt, started |-> FALSE]
    ELSE [ret |-> TRUE,
          last_triggered |-> IF force THEN lt ELSE can_trigger(lt, text, now).last_triggered,
          started |-> TRUE]

\* speak that records the time of a forced call as the last-fire time
speak_forced_records(lt, text, force) ==
    IF speaking /\ ~force
    THEN [ret |-> FALSE, last_triggered |-> lt, started |-> FALSE]
    ELSE IF ~force /\ ~can_trigger(lt, text, now).ret
    THEN [ret |-> FALSE, last_triggered |-> lt, started |-> FALSE]
    ELSE [ret |-> TRUE,
          last_triggered |-> IF force THEN [lt EXCEPT ![text] = now]
                             ELSE can_trigger(lt, text, now).last_triggered,
          started |-> TRUE]

\* speak that asks the rate limiter before it looks at speaking
speak_cooldown_first(lt, text, force) ==
    IF ~force /\ ~can_trigger(lt, text, now).ret
    THEN [ret |-> FALSE, last_triggered |-> lt, started |-> FALSE]
    ELSE IF speaking /\ ~force
    THEN [ret |-> FALSE, last_triggered |-> can_trigger(lt, text, now).last_triggered,
          started |-> FALSE]
    ELSE [ret |-> TRUE,
          last_triggered |-> IF force THEN lt ELSE can_trigger(lt, text, now).last_triggered,
          started |-> TRUE]

\* SmartSpeech.speak: the result, the dictionary it leaves, and whether a
\* speech thread was started
speak(lt, text, force) ==
    IF speaking /\ ~force
    THEN [ret |-> FALSE, last_triggered |-> lt, started |-> FALSE]
    ELSE IF ~force /\ ~can_trigger(lt, text, now).ret
    THEN [ret |-> FALSE, last_triggered |-> can_trigger(lt, text, now).last_triggered,
          started |-> FALSE]
    ELSE [ret |-> TRUE,
          last_triggered |-> IF force THEN lt ELSE can_trigger(lt, text, now).last_triggered,
          started |-> TRUE]

\* an announce_critical_object that also forces the alert at 30 cm itself
announce_critical_object_inclusive(lt, object_name, distance) ==
    IF distance = NoReading \/ distance >= SPEECH_TRIGGER_DISTANCE
    THEN [ret |-> FALSE, last_triggered |-> lt, started |-> FALSE,
          key |-> speech_map(object_name), force |-> FALSE, skipped |-> TRUE]
    ELSE IF distance <= CRITICAL_DISTANCE
    THEN LET text == Warning(speech_map(object_name))
             r == speak(reset(lt, text), text, TRUE)
         IN [ret |-> r.ret, last_triggered |-> r.last_triggered, started |-> r.started,
             key |-> text, force |-> TRUE, skipped |-> FALSE]
    ELSE LET text == speech_map(object_name)
             r == speak(lt, text, FALSE)
         IN [ret |-> r.ret, last_triggered |-> r.last_triggered, started |-> r.started,
             key |-> text, force |-> FALSE, skipped |-> FALSE]

\* SmartSpeech.announce_critical_object
announce_critical_object(lt, object_name, distance) ==
    IF distance = NoReading \/ distance >= SPEECH_TRIGGER_DISTANCE
    THEN [ret |-> FALSE, last_triggered |-> lt, started |-> FALSE,
          key |-> speech_map(object_name), force |-> FALSE, skipped |-> TRUE]
    ELSE IF distance < CRITICAL_DISTANCE
    THEN LET text == Warning(speech_map(object_name))
             r == speak(reset(lt, text), text, TRUE)
         IN [ret |-> r.ret, last_triggered |-> r.last_triggered, started |-> r.started,
             key |-> text, force |-> TRUE, skipped |-> FALSE]
    ELSE LET text == speech_map(object_name)
             r == speak(lt, text, FALSE)
         IN [ret |-> r.ret, last_triggered |-> r.last_triggered, started |-> r.started,
             key |-> text, force |-> FALSE, skipped |-> FALSE]

\* history record of a call, taken before the call changes anything: age is
\* the time since the key last fired, flight and flag say whether a speech
\* thread was alive and whether speaking was set, after_reset whether the
\* call before was a reset of the same key that found it inside its cooldown
Call(op, key, force, ret) ==
    [op |-> op, key |-> key, force |-> force, ret |-> ret,
     age |-> IF last_triggered[key] = NoEntry THEN NoEntry ELSE now - last_triggered[key],
     flight |-> created + in_speech > 0,
     flag |-> speaking,
     after_reset |-> /\ last_call.op = "reset"
                     /\ last_call.key = key
                     /\ last_call.age # NoEntry
                     /\ last_call.age < SPEECH_COOLDOWN]

NoCall == [op |-> "none", key |-> "", force |-> FALSE, ret |-> FALSE,
           age |-> NoEntry, flight |-> FALSE, flag |-> FALSE, after_reset |-> FALSE]

Log(rec) ==
    /\ last_call' = rec
    /\ call_bit' = ~call_bit

\* a call of speak from any thread (speak_urgent is speak with force)
SpeakCall(text, force) ==
    LET r == speak(last_triggered, text, force)
    IN /\ r.started => created + in_speech < MaxWorkers
       /\ last_triggered' = r.last_triggered
       /\ created' = IF r.started THEN created + 1 ELSE created
       /\ Log(Call("speak", text, force, r.ret))
       /\ UNCHANGED <<now, speaking, in_speech>>
       /\ UNCHANGED <<fastVars, vibVars, pwm_ok, slowVars, lockVars, stopVars, unitVars, histVars>>

\* an announcement that waits until no speech thread is left
Announce_waits(object_name, distance) ==
    LET r == announce_critical_object(last_triggered, object_name, distance)
    IN /\ created + in_speech = 0
       /\ last_triggered' = r.last_triggered
       /\ created' = IF r.started THEN created + 1 ELSE created
       /\ Log(Call(IF r.skipped THEN "announce_skip" ELSE "announce",
                   r.key, r.force, r.ret))
       /\ UNCHANGED <<now, speaking, in_speech>>

\* the effect of announce_critical_object on the gate
Announce(object_name, distance) ==
    LET r == announce_critical_object(last_triggered, object_name, distance)
    IN /\ r.started => created + in_speech < MaxWorkers
       /\ last_triggered' = r.last_triggered
       /\ created' = IF r.started THEN created + 1 ELSE created
       /\ Log(Call(IF r.skipped THEN "announce_skip" ELSE "announce",
                   r.key, r.force, r.ret))
       /\ UNCHANGED <<now, speaking, in_speech>>

\* a call of announce_critical_object, as in the module's own tests
AnnounceCall(object_name, distance) ==
    /\ Announce(object_name, distance)
    /\ UNCHANGED <<fastVars, vibVars, pwm_ok, slowVars, lockVars, stopVars, unitVars, histVars>>

\* the distances of the calls whose distance is kept: both sides of the
\* critical distance and of the speech trigger distance
AlertDistances == {NoReading, 10, 29, 30, 79, 80, 200}

\* a call of announce_critical_object whose distance argument is kept
AnnounceAt(object_name, distance) ==
    /\ Announce(object_name, distance)
    /\ alert_distance' = distance
    /\ UNCHANGED <<fastVars, vibVars, pwm_ok, slowVars, lockVars, stopVars, unitVars>>
    /\ UNCHANGED <<sample_reads, slow_timer, pulse_written, seen, last_outcome, speech_lock, ask, ready_said>>

\* _speak_async: self.speaking = True, then subprocess.run
WorkerBegin ==
    /\ created > 0
    /\ created' = created - 1
    /\ in_speech' = in_speech + 1
    /\ speaking' = TRUE
    /\ UNCHANGED <<now, last_triggered, last_call, call_bit>>
    /\ UNCHANGED <<fastVars, vibVars, pwm_ok, slowVars, lockVars, stopVars, unitVars, histVars>>

\* _speak_async: espeak returned, failed or timed out; finally clears the flag
WorkerEnd ==
    /\ in_speech > 0
    /\ in_speech' = in_speech - 1
    /\ speaking' = FALSE
    /\ UNCHANGED <<now, last_triggered, created, last_call, call_bit>>
    /\ UNCHANGED <<fastVars, vibVars, pwm_ok, slowVars, lockVars, stopVars, unitVars, histVars>>

\* the ways _speak_async comes to its finally clause: espeak returned 0, it
\* returned another code, subprocess.run timed out, or it raised otherwise
Outcomes == {"spoken", "failed", "timeout", "error"}

\* a worker that clears the flag only after the utterance was spoken
WorkerFinish_unless_fault(outcome) ==
    /\ in_speech > 0
    /\ in_speech' = in_speech - 1
    /\ speaking' = IF outcome = "spoken" THEN FALSE ELSE speaking
    /\ UNCHANGED <<now, last_triggered, created, last_call, call_bit>>

\* the end of _speak_async by one of its ways: finally clears the flag
WorkerFinish(outcome) ==
    /\ in_speech > 0
    /\ in_speech' = in_speech - 1
    /\ speaking' = FALSE
    /\ UNCHANGED <<now, last_triggered, created, last_call, call_bit>>

\* a speech worker ends, the way it ended kept
WorkerEnds ==
    /\ \E outcome \in Outcomes :
         /\ WorkerFinish(outcome)
         /\ last_outcome' = outcome
    /\ UNCHANGED <<fastVars, vibVars, pwm_ok, slowVars, lockVars, stopVars, unitVars>>
    /\ UNCHANGED <<alert_distance, sample_reads, slow_timer, pulse_written, seen,
                   speech_lock, ask, ready_said>>

\* one second passes
TickClock ==
    /\ now < MaxTime
    /\ now' = now + 1
    /\ UNCHANGED <<last_triggered, speaking, created, in_speech, last_call, call_bit>>
    /\ UNCHANGED <<fastVars, vibVars, pwm_ok, slowVars, lockVars, stopVars, unitVars, histVars>>

\* RateLimiter used on its own
GateCanTrigger(key) ==
    LET r == can_trigger(last_triggered, key, now)
    IN /\ last_triggered' = r.last_triggered
       /\ Log(Call("can_trigger", key, FALSE, r.ret))
       /\ UNCHANGED <<now, speaking, created, in_speech>>
       /\ UNCHANGED <<fastVars, vibVars, pwm_ok, slowVars, lockVars, stopVars, unitVars, histVars>>

GateReset(key) ==
    /\ last_triggered' = reset(last_triggered, key)
    /\ Log(Call("reset", key, FALSE, TRUE))
    /\ UNCHANGED <<now, speaking, created, in_speech>>
    /\ UNCHANGED <<fastVars, vibVars, pwm_ok, slowVars, lockVars, stopVars, unitVars, histVars>>

----------------------------------------------------------------------------
\* Slow loop: _camera_speech_loop (the second definition, which is the one
\* the class keeps)

\* what camera.detect_objects returns: lists of (name, is_center, confidence)
Detections ==
    { << >>,
      << [name |-> "person", is_center |-> FALSE, conf |-> 9] >>,
      << [name |-> "person", is_center |-> TRUE, conf |-> 6],
         [name |-> "diningtable", is_center |-> TRUE, conf |-> 8] >>,
      << [name |-> "person", is_center |-> FALSE, conf |-> 9],
         [name |-> "diningtable", is_center |-> TRUE, conf |-> 7] >> }

IsCenter(d) == d.is_center

center_objects(detections) == SelectSeq(detections, IsCenter)

\* a choice that takes the first in-center detection
best_detection_first(objs) == objs[1]

\* max(center_objects, key=lambda x: x[1]): the first of the maximal ones
best_detection(objs) ==
    LET i == CHOOSE j \in 1..Len(objs) :
                 \A k \in 1..Len(objs) :
                     /\ objs[j].conf >= objs[k].conf
                     /\ (objs[k].conf = objs[j].conf => j <= k)
    IN objs[i]

\* the fast loop as the slow loop sees it: it publishes its measurement
FastPublish ==
    /\ running
    /\ fast_pc = "iter"
    /\ \E echo \in Echoes : current_distance' = get_distance(echo)
    /\ UNCHANGED <<running, fast_pc, fast_timer, consecutive_errors, timeouts>>
    /\ UNCHANGED <<vibVars, pwm_ok, alertVars>>

\* an except branch that starts the recovery one error before the ceiling
SlowFail_early ==
    /\ slow_errors' = slow_errors + 1
    /\ IF slow_errors + 1 >= max_errors_slow - 1
       THEN /\ camera' = "released"
            /\ camera_releases' = camera_releases + 1
            /\ slow_pc' = "recover"
       ELSE /\ camera' = camera
            /\ camera_releases' = camera_releases
            /\ slow_pc' = "iter"
    /\ UNCHANGED speechVars

\* except branch of the slow loop up to the sleep of the recovery
SlowFail ==
    /\ slow_errors' = slow_errors + 1
    /\ IF slow_errors + 1 >= max_errors_slow
       THEN /\ camera' = "released"
            /\ camera_releases' = camera_releases + 1
            /\ slow_pc' = "recover"
       ELSE /\ camera' = camera
            /\ camera_releases' = camera_releases
            /\ slow_pc' = "iter"
    /\ UNCHANGED speechVars

\* a gate that also skips detection at the trigger distance itself
SkipsDetection_strict(dist) == dist = NoReading \/ dist >= CAMERA_TRIGGER_DISTANCE

\* the gate of the slow loop on the distance it read
SkipsDetection(dist) == dist = NoReading \/ dist > CAMERA_TRIGGER_DISTANCE

\* the slow loop from camera.detect_objects() to the sleep that ends the
\* iteration, with the distance the iteration read
DetectFrom(dist, frames) ==
    \/ SlowFail
    \/ \E detections \in frames :
         IF detections = << >> \/ center_objects(detections) = << >>
         THEN /\ slow_pc' = "iter"
              /\ UNCHANGED <<slow_errors, camera, camera_releases, speechVars>>
         ELSE /\ IF dist < SPEECH_TRIGGER_DISTANCE
                 THEN Announce(best_detection(center_objects(detections)).name, dist)
                 ELSE UNCHANGED speechVars
              /\ slow_errors' = 0
              /\ slow_pc' = "iter"
              /\ UNCHANGED <<camera, camera_releases>>

Detect(dist) == DetectFrom(dist, Detections)

\* a slow loop that never tests the running flag
SlowIterate_unflagged ==
    /\ slow_pc = "iter"
    /\ IF SkipsDetection(current_distance)
       THEN UNCHANGED <<slow_pc, slow_errors, camera, camera_releases, speechVars>>
       ELSE Detect(current_distance)
    /\ UNCHANGED <<fastVars, vibVars, pwm_ok, lockVars, stopVars, unitVars, histVars>>

\* one iteration of the slow loop, from the loop test to the sleep
SlowBody ==
    /\ slow_pc = "iter"
    /\ IF ~running
       THEN /\ slow_pc' = "exit_flag"
            /\ UNCHANGED <<slow_errors, camera, camera_releases, speechVars>>
       ELSE IF SkipsDetection(current_distance)
       THEN UNCHANGED <<slow_pc, slow_errors, camera, camera_releases, speechVars>>
       ELSE Detect(current_distance)

\* the iteration with the time of its sleep left open
SlowIterate ==
    /\ SlowBody
    /\ UNCHANGED <<fastVars, vibVars, pwm_ok, lockVars, stopVars, unitVars, histVars>>

\* detection lists with the best in-center detection first, last and in the
\* middle, with a tie, with an off-center detection of higher confidence, and
\* with every detection off center
Frames ==
    Detections \cup
    { << [name |-> "person", is_center |-> TRUE, conf |-> 9],
         [name |-> "diningtable", is_center |-> TRUE, conf |-> 7] >>,
      << [name |-> "diningtable", is_center |-> TRUE, conf |-> 8],
         [name |-> "person", is_center |-> TRUE, conf |-> 8] >>,
      << [name |-> "person", is_center |-> FALSE, conf |-> 9],
         [name |-> "person", is_center |-> TRUE, conf |-> 5],
         [name |-> "diningtable", is_center |-> TRUE, conf |-> 7],
         [name |-> "person", is_center |-> TRUE, conf |-> 6] >>,
      << [name |-> "person", is_center |-> FALSE, conf |-> 9],
         [name |-> "diningtable", is_center |-> FALSE, conf |-> 8] >> }

\* no detection list: the iteration did not come back from the camera
NoFrame == [ran |-> FALSE, list |-> << >>, asked |-> FALSE]

\* one iteration of the slow loop with what it saw kept: the detection list
\* the camera returned, and whether the iteration called
\* announce_critical_object
SlowSees ==
    /\ slow_pc = "iter"
    /\ \E detections \in Frames :
         /\ IF ~running
            THEN /\ slow_pc' = "exit_flag"
                 /\ UNCHANGED <<slow_errors, camera, camera_releases, speechVars>>
            ELSE IF SkipsDetection(current_distance)
            THEN UNCHANGED <<slow_pc, slow_errors, camera, camera_releases, speechVars>>
            ELSE DetectFrom(current_distance, {detections})
         /\ seen' = IF running /\ ~SkipsDetection(current_distance)
                       /\ slow_errors' <= slow_errors
                    THEN [ran |-> TRUE, list |-> detections,
                          asked |-> call_bit' # call_bit]
                    ELSE NoFrame
    /\ UNCHANGED <<fastVars, vibVars, pwm_ok, lockVars, stopVars, unitVars>>
    /\ UNCHANGED <<alert_distance, sample_reads, slow_timer, pulse_written, last_outcome,
                   speech_lock, ask, ready_said>>

\* an iteration of the slow loop whose speech request raises: speak has
\* passed the gate and Thread.start finds no thread left to start; the except
\* branch of the loop counts it like a failure of the camera
SlowAnnounceRaises ==
    /\ slow_pc = "iter"
    /\ running
    /\ ~SkipsDetection(current_distance)
    /\ current_distance < SPEECH_TRIGGER_DISTANCE
    /\ created + in_speech >= MaxWorkers
    /\ \E detections \in Detections :
         /\ detections # << >>
         /\ center_objects(detections) # << >>
         /\ LET r == announce_critical_object(last_triggered,
                        best_detection(center_objects(detections)).name,
                        current_distance)
            IN /\ r.started
               /\ last_triggered' = r.last_triggered
               /\ Log(Call("announce_raised", r.key, r.force, FALSE))
    /\ slow_errors' = slow_errors + 1
    /\ IF slow_errors + 1 >= max_errors_slow
       THEN /\ camera' = "released"
            /\ camera_releases' = camera_releases + 1
            /\ slow_pc' = "recover"
       ELSE /\ camera' = camera
            /\ camera_releases' = camera_releases
            /\ slow_pc' = "iter"
    /\ UNCHANGED <<now, created, speaking, in_speech>>
    /\ UNCHANGED <<fastVars, vibVars, pwm_ok, lockVars, stopVars, unitVars, histVars>>

\* a recovery that keeps the loop running when CameraManager() raises
SlowRecover_continues ==
    /\ slow_pc = "recover"
    /\ \E reopened \in BOOLEAN :
         IF reopened
         THEN /\ camera' = "acquired"
              /\ camera_releases' = 0
              /\ slow_errors' = 0
              /\ slow_pc' = "iter"
         ELSE /\ slow_pc' = "iter"
              /\ UNCHANGED <<camera, camera_releases, slow_errors>>
    /\ UNCHANGED <<fastVars, vibVars, pwm_ok, speechVars, lockVars, stopVars, unitVars, histVars>>

\* the recovery after its sleep: CameraManager() returns or raises
SlowRecover ==
    /\ slow_pc = "recover"
    /\ \E reopened \in BOOLEAN :
         IF reopened
         THEN /\ camera' = "acquired"
              /\ camera_releases' = 0
              /\ slow_errors' = 0
              /\ slow_pc' = "iter"
         ELSE /\ slow_pc' = "exit_recovery"
              /\ UNCHANGED <<camera, camera_releases, slow_errors>>
    /\ UNCHANGED <<fastVars, vibVars, pwm_ok, speechVars, lockVars, stopVars, unitVars, histVars>>

----------------------------------------------------------------------------
\* The two loops step by step, with the distance lock.  The steps of one
\* iteration are those of the iterations above, cut at the acquisitions of
\* self.distance_lock; the slow loop runs beside the clock of the fast loop,
\* since its vision call takes a time the program does not bound.

\* the measurements of the step-by-step loops
LoopEchoes == {NoEcho, 20, 150, 200}

\* fast loop: loop test and ultrasonic.read_distance()
FastReadOf(echoes) ==
    /\ fast_pc = "iter"
    /\ fast_timer = 0
    /\ IF ~running
       THEN /\ fast_pc' = "exit_flag"
            /\ UNCHANGED fast_distance
       ELSE /\ \E echo \in echoes : fast_distance' = get_distance(echo)
            /\ fast_pc' = "acquire"
    /\ UNCHANGED <<running, current_distance, fast_timer, consecutive_errors, timeouts>>
    /\ UNCHANGED <<vibVars, pwm_ok, speechVars, slowVars, stopVars, unitVars, histVars>>
    /\ UNCHANGED <<distance_lock, current_dist, published, status_pc>>

FastRead == FastReadOf(LoopEchoes)

\* the measurements of the specification of the haptic feedback
HapticEchoes == {NoEcho, 20}

FastReadNear == FastReadOf(HapticEchoes)

\* fast loop: with self.distance_lock, entered when the lock is free
FastAcquire ==
    /\ fast_pc = "acquire"
    /\ distance_lock = "free"
    /\ distance_lock' = "fast"
    /\ fast_pc' = "write"
    /\ UNCHANGED <<running, current_distance, fast_timer, consecutive_errors, timeouts>>
    /\ UNCHANGED <<vibVars, pwm_ok, speechVars, slowVars, stopVars, unitVars, histVars>>
    /\ UNCHANGED <<fast_distance, current_dist, published, status_pc>>

\* a write that keeps the lock after the with block
FastWrite_keeps_lock ==
    /\ fast_pc = "write"
    /\ current_distance' = fast_distance
    /\ published' = fast_distance
    /\ fast_pc' = "update"
    /\ UNCHANGED <<running, fast_timer, consecutive_errors, timeouts>>
    /\ UNCHANGED <<vibVars, pwm_ok, speechVars, slowVars, stopVars, unitVars, histVars>>
    /\ UNCHANGED <<distance_lock, fast_distance, current_dist, status_pc>>

\* a write that keeps the last valid sample when the measurement is None
FastWrite_keeps_sample ==
    /\ fast_pc = "write"
    /\ current_distance' = IF fast_distance = NoReading THEN current_distance
                           ELSE fast_distance
    /\ published' = fast_distance
    /\ distance_lock' = "free"
    /\ fast_pc' = "update"
    /\ UNCHANGED <<running, fast_timer, consecutive_errors, timeouts>>
    /\ UNCHANGED <<vibVars, pwm_ok, speechVars, slowVars, stopVars, unitVars, histVars>>
    /\ UNCHANGED <<fast_distance, current_dist, status_pc>>

\* fast loop: self.current_distance = distance, and the end of the with block
FastWrite ==
    /\ fast_pc = "write"
    /\ current_distance' = fast_distance
    /\ published' = fast_distance
    /\ distance_lock' = "free"
    /\ fast_pc' = "update"
    /\ UNCHANGED <<running, fast_timer, consecutive_errors, timeouts>>
    /\ UNCHANGED <<vibVars, pwm_ok, speechVars, slowVars, stopVars, unitVars, histVars>>
    /\ UNCHANGED <<fast_distance, current_dist, status_pc>>

\* fast loop: vibration.update_from_distance(distance) up to its sleep, or to
\* the end of the iteration
FastUpdate ==
    /\ fast_pc = "update"
    /\ update_from_distance(fast_distance)
    /\ UNCHANGED <<running, current_distance, timeouts, pwm_ok>>
    /\ UNCHANGED alertVars

\* slow loop: the loop test
SlowTest ==
    /\ slow_pc = "iter"
    /\ slow_pc' = IF running THEN "acquire" ELSE "exit_flag"
    /\ UNCHANGED <<slow_errors, camera, camera_releases, speechVars>>
    /\ UNCHANGED <<fastVars, vibVars, pwm_ok, lockVars, stopVars, unitVars, histVars>>

\* slow loop: with self.distance_lock, entered when the lock is free
SlowAcquire ==
    /\ slow_pc = "acquire"
    /\ distance_lock = "free"
    /\ distance_lock' = "slow"
    /\ slow_pc' = "read"
    /\ UNCHANGED <<slow_errors, camera, camera_releases, speechVars>>
    /\ UNCHANGED <<fastVars, vibVars, pwm_ok, stopVars, unitVars, histVars>>
    /\ UNCHANGED <<fast_distance, current_dist, published, status_pc>>

\* a read that goes on to the camera with the lock still held
SlowRead_keeps_lock ==
    /\ slow_pc = "read"
    /\ current_dist' = current_distance
    /\ distance_lock' = IF SkipsDetection(current_distance) THEN "free" ELSE "slow"
    /\ slow_pc' = IF SkipsDetection(current_distance) THEN "iter" ELSE "detect"
    /\ UNCHANGED <<slow_errors, camera, camera_releases, speechVars>>
    /\ UNCHANGED <<fastVars, vibVars, pwm_ok, stopVars, unitVars, histVars>>
    /\ UNCHANGED <<fast_distance, published, status_pc>>

\* slow loop: current_dist = self.current_distance, the end of the with
\* block, and the gate: sleep and continue, or go on to the camera
SlowRead ==
    /\ slow_pc = "read"
    /\ current_dist' = current_distance
    /\ distance_lock' = "free"
    /\ slow_pc' = IF SkipsDetection(current_distance) THEN "iter" ELSE "detect"
    /\ UNCHANGED <<slow_errors, camera, camera_releases, speechVars>>
    /\ UNCHANGED <<fastVars, vibVars, pwm_ok, stopVars, unitVars, histVars>>
    /\ UNCHANGED <<fast_distance, published, status_pc>>

\* slow loop: camera.detect_objects() and the rest of the iteration
SlowDetect ==
    /\ slow_pc = "detect"
    /\ Detect(current_dist)
    /\ UNCHANGED <<fastVars, vibVars, pwm_ok, lockVars, stopVars, unitVars, histVars>>

\* main(): with cane.distance_lock, in the periodic status snapshot; the
\* main thread takes it between start() and stop()
StatusAcquire ==
    /\ running
    /\ status_pc = "idle"
    /\ distance_lock = "free"
    /\ distance_lock' = "main"
    /\ status_pc' = "read"
    /\ UNCHANGED <<fastVars, vibVars, pwm_ok, speechVars, slowVars, stopVars, unitVars, histVars>>
    /\ UNCHANGED <<fast_distance, current_dist, published>>

\* main(): dist = cane.current_distance and the end of the with block
StatusRead ==
    /\ status_pc = "read"
    /\ distance_lock' = "free"
    /\ status_pc' = "idle"
    /\ UNCHANGED <<fastVars, vibVars, pwm_ok, speechVars, slowVars, stopVars, unitVars, histVars>>
    /\ UNCHANGED <<fast_distance, current_dist, published>>

----------------------------------------------------------------------------
\* The speech lock.  announce_critical_object and speak cut at the
\* acquisitions of self.speech_lock: the slow loop takes it for the reset of
\* a critical warning and again for Thread.start, the main thread takes it
\* for Thread.start in speak_urgent; _speak_async takes no lock.

\* no request
NoAsk == [text |-> "", force |-> FALSE]

\* the frame of a step of the slow loop inside announce_critical_object
SlowAskFrame ==
    /\ UNCHANGED <<fastVars, vibVars, pwm_ok, lockVars, stopVars, unitVars>>
    /\ UNCHANGED <<alert_distance, sample_reads, slow_timer, pulse_written, seen,
                   last_outcome, ready_said>>

\* slow loop: camera.detect_objects(), the center filter and the choice of
\* the best detection; then announce_critical_object up to its first lock,
\* or to the call of speak
SlowDetectCut ==
    /\ slow_pc = "detect"
    /\ \/ /\ SlowFail
          /\ UNCHANGED <<ask, speech_lock>>
       \/ \E detections \in Detections :
            IF detections = << >> \/ center_objects(detections) = << >>
            THEN /\ slow_pc' = "iter"
                 /\ UNCHANGED <<slow_errors, camera, camera_releases, speechVars>>
                 /\ UNCHANGED <<ask, speech_lock>>
            ELSE IF current_dist < SPEECH_TRIGGER_DISTANCE
            THEN LET name == speech_map(best_detection(center_objects(detections)).name)
                 IN /\ ask' = IF current_dist < CRITICAL_DISTANCE
                               THEN [text |-> Warning(name), force |-> TRUE]
                               ELSE [text |-> name, force |-> FALSE]
                    /\ slow_pc' = IF current_dist < CRITICAL_DISTANCE
                                   THEN "lock_reset" ELSE "gate"
                    /\ UNCHANGED <<slow_errors, camera, camera_releases, speechVars>>
                    /\ UNCHANGED speech_lock
            ELSE /\ slow_errors' = 0
                 /\ slow_pc' = "iter"
                 /\ UNCHANGED <<camera, camera_releases, speechVars>>
                 /\ UNCHANGED <<ask, speech_lock>>
    /\ SlowAskFrame

\* announce_critical_object: with self.speech_lock, entered when it is free
SlowLockReset ==
    /\ slow_pc = "lock_reset"
    /\ speech_lock = "free"
    /\ speech_lock' = "slow"
    /\ slow_pc' = "reset"
    /\ UNCHANGED <<slow_errors, camera, camera_releases, speechVars, ask>>
    /\ SlowAskFrame

\* a critical branch that calls speak inside its with block
SlowReset_keeps_lock ==
    /\ slow_pc = "reset"
    /\ last_triggered' = reset(last_triggered, ask.text)
    /\ speech_lock' = speech_lock
    /\ slow_pc' = "gate"
    /\ UNCHANGED <<now, speaking, created, in_speech, last_call, call_bit>>
    /\ UNCHANGED <<slow_errors, camera, camera_releases, ask>>
    /\ SlowAskFrame

\* announce_critical_object: rate_limiter.reset(speech_text) and the end of
\* the with block
SlowReset ==
    /\ slow_pc = "reset"
    /\ last_triggered' = reset(last_triggered, ask.text)
    /\ speech_lock' = "free"
    /\ slow_pc' = "gate"
    /\ UNCHANGED <<now, speaking, created, in_speech, last_call, call_bit>>
    /\ UNCHANGED <<slow_errors, camera, camera_releases, ask>>
    /\ SlowAskFrame

\* speak up to its with block: the test of the flag and of the cooldown; a
\* request that is refused ends the iteration
SlowGate ==
    /\ slow_pc = "gate"
    /\ LET r == speak(last_triggered, ask.text, ask.force)
       IN /\ last_triggered' = r.last_triggered
          /\ IF r.started
             THEN /\ slow_pc' = "lock_start"
                  /\ UNCHANGED <<slow_errors, ask>>
             ELSE /\ slow_pc' = "iter"
                  /\ slow_errors' = 0
                  /\ ask' = NoAsk
    /\ UNCHANGED <<now, speaking, created, in_speech, last_call, call_bit>>
    /\ UNCHANGED <<camera, camera_releases, speech_lock>>
    /\ SlowAskFrame

\* speak: with self.speech_lock, entered when it is free
SlowLockStart ==
    /\ slow_pc = "lock_start"
    /\ speech_lock = "free"
    /\ speech_lock' = "slow"
    /\ slow_pc' = "start"
    /\ UNCHANGED <<slow_errors, camera, camera_releases, speechVars, ask>>
    /\ SlowAskFrame

\* speak: Thread.start() and the end of the with block, which also ends when
\* Thread.start raises; then the rest of the iteration or its except branch
SlowStart ==
    /\ slow_pc = "start"
    /\ speech_lock' = "free"
    /\ ask' = NoAsk
    /\ IF created + in_speech < MaxWorkers
       THEN /\ created' = created + 1
            /\ slow_errors' = 0
            /\ slow_pc' = "iter"
            /\ UNCHANGED <<camera, camera_releases>>
            /\ UNCHANGED <<now, last_triggered, speaking, in_speech, last_call, call_bit>>
       ELSE SlowFail
    /\ SlowAskFrame

\* the frame of a step of the main thread inside speak_urgent
MainSpeakFrame ==
    /\ UNCHANGED <<fastVars, vibVars, pwm_ok, slowVars, stopVars, unitVars>>
    /\ UNCHANGED <<distance_lock, fast_distance, current_dist, published>>
    /\ UNCHANGED <<alert_distance, sample_reads, slow_timer, pulse_written, seen,
                   last_outcome, ask>>

\* start(): speak_urgent("Smart cane ready") after the two threads were
\* started, up to the with block of speak; force passes the gate
MainSpeakCall ==
    /\ running
    /\ status_pc = "idle"
    /\ ~ready_said
    /\ status_pc' = "speak_wait"
    /\ UNCHANGED <<speechVars, speech_lock, ready_said>>
    /\ MainSpeakFrame

\* speak in the main thread: with self.speech_lock, entered when it is free
MainLockStart ==
    /\ status_pc = "speak_wait"
    /\ speech_lock = "free"
    /\ speech_lock' = "main"
    /\ status_pc' = "speak"
    /\ UNCHANGED <<speechVars, ready_said>>
    /\ MainSpeakFrame

\* speak in the main thread: Thread.start() and the end of the with block;
\* start() catches what Thread.start raises
MainStart ==
    /\ status_pc = "speak"
    /\ speech_lock' = "free"
    /\ status_pc' = "idle"
    /\ ready_said' = TRUE
    /\ created' = IF created + in_speech < MaxWorkers THEN created + 1 ELSE created
    /\ UNCHANGED <<now, last_triggered, speaking, in_speech, last_call, call_bit>>
    /\ MainSpeakFrame

----------------------------------------------------------------------------
\* SmartCane.stop after it has cleared the flag, and SmartCane.cleanup

\* Thread.join(timeout=3), in ticks
JoinTimeout == 3 * TicksPerSecond

\* the measurements of the specification of the shutdown
StopEchoes == {120}

FastMeasureNear == FastIteration(StopEchoes, FALSE)

\* the measurements of the specification of the releases
ReleaseEchoes == {NoEcho, 20}

FastMeasureCritical == FastIteration(ReleaseEchoes, FALSE)

\* time.sleep(CAMERA_LOOP_DELAY) at the end of an iteration, in ticks
CameraLoopDelay == TicksPerSecond

\* time.sleep(2) at the end of the except branch, in ticks
SlowErrorDelay == 2 * TicksPerSecond

\* a sample read by this many iterations of the slow loop is counted no further
MaxReads == 2

\* the fast loop of the specification of the age of the sample: an
\* iteration that runs publishes its measurement
FastPublishes ==
    /\ FastBody(ReleaseEchoes, FALSE)
    /\ sample_reads' = IF running THEN 0 ELSE sample_reads
    /\ UNCHANGED <<speechVars, slowVars, lockVars, stopVars, unitVars>>
    /\ UNCHANGED <<alert_distance, slow_timer, pulse_written, seen, last_outcome, speech_lock, ask, ready_said>>

\* the slow loop of the same specification: an iteration begins when the
\* sleep of the one before has ended, reads the published sample, and ends in
\* the sleep of its branch
SlowSamples ==
    /\ slow_timer = 0
    /\ SlowBody
    /\ sample_reads' = IF ~running THEN sample_reads
                       ELSE IF sample_reads < MaxReads THEN sample_reads + 1
                       ELSE sample_reads
    /\ slow_timer' = IF ~running THEN 0
                     ELSE IF slow_errors' > slow_errors THEN SlowErrorDelay
                     ELSE CameraLoopDelay
    /\ UNCHANGED <<fastVars, vibVars, pwm_ok, lockVars, stopVars, unitVars>>
    /\ UNCHANGED <<alert_distance, pulse_written, seen, last_outcome, speech_lock, ask, ready_said>>

FastExited == fast_pc \in {"idle", "exit_flag", "exit_errors"}

SlowExited == slow_pc \in {"idle", "exit_flag", "exit_recovery"}

\* what the motor receives: pwm.stop() ends the signal, and GPIO.cleanup()
\* returns every channel the program has set up, the motor pin included, to
\* an input
ActuatorOutput == IF pwm_stops > 0 \/ gpio_cleanups > 0 THEN 0 ELSE duty

\* stop(): speech.speak_urgent("Smart cane stopping") and time.sleep(1); a
\* speech thread that cannot be started raises, and the except skips the sleep
StopAnnounce ==
    /\ stop_pc = "announce"
    /\ IF created + in_speech < MaxWorkers
       THEN /\ created' = created + 1
            /\ stop_timer' = TicksPerSecond
       ELSE /\ created' = created
            /\ stop_timer' = 0
    /\ stop_pc' = "announce_wait"
    /\ UNCHANGED <<now, last_triggered, speaking, in_speech, last_call, call_bit>>
    /\ UNCHANGED <<fastVars, vibVars, pwm_ok, slowVars, lockVars>>
    /\ UNCHANGED <<pwm_stops, gpio_cleanups, unitVars, histVars>>

\* stop(): ultrasonic_thread.join(timeout=3) when the thread is alive
StopJoinFast ==
    /\ stop_pc = "announce_wait"
    /\ stop_timer = 0
    /\ stop_pc' = "join_fast"
    /\ stop_timer' = IF FastExited THEN 0 ELSE JoinTimeout
    /\ UNCHANGED <<fastVars, vibVars, pwm_ok, speechVars, slowVars, lockVars>>
    /\ UNCHANGED <<pwm_stops, gpio_cleanups, unitVars, histVars>>

\* stop(): the first join returns, the thread ended or the timeout expired;
\* camera_thread.join(timeout=3) when the thread is alive
StopJoinSlow ==
    /\ stop_pc = "join_fast"
    /\ FastExited \/ stop_timer = 0
    /\ stop_pc' = "join_slow"
    /\ stop_timer' = IF SlowExited THEN 0 ELSE JoinTimeout
    /\ UNCHANGED <<fastVars, vibVars, pwm_ok, speechVars, slowVars, lockVars>>
    /\ UNCHANGED <<pwm_stops, gpio_cleanups, unitVars, histVars>>

\* a stop() that goes to cleanup() without the sleep and the joins
StopCleanup_nojoin ==
    /\ stop_pc = "announce_wait"
    /\ pulse_active' = FALSE
    /\ stop_pc' = "all_off_wait"
    /\ stop_timer' = CancelWait
    /\ UNCHANGED <<pulse_thread, current_intensity, pulse_rate, duty, pulses>>
    /\ UNCHANGED <<fastVars, pwm_ok, speechVars, slowVars, lockVars>>
    /\ UNCHANGED <<pwm_stops, gpio_cleanups, unitVars, histVars>>

\* stop(): the second join returns; cleanup(): vibration.all_off() up to the
\* sleep of off()
StopCleanup ==
    /\ stop_pc = "join_slow"
    /\ SlowExited \/ stop_timer = 0
    /\ pulse_active' = FALSE
    /\ stop_pc' = "all_off_wait"
    /\ stop_timer' = CancelWait
    /\ UNCHANGED <<pulse_thread, current_intensity, pulse_rate, duty, pulses>>
    /\ UNCHANGED <<fastVars, pwm_ok, speechVars, slowVars, lockVars>>
    /\ UNCHANGED <<pwm_stops, gpio_cleanups, unitVars, histVars>>

\* cleanup() from ultrasonic.cleanup() on: GPIO.cleanup(), camera.cleanup(),
\* speech.cleanup() up to its sleep; g is the count of GPIO.cleanup() so far
ReleaseRest(g) ==
    /\ gpio_cleanups' = g + 1
    /\ camera' = "released"
    /\ camera_releases' = camera_releases + 1
    /\ IF speaking
       THEN /\ stop_pc' = "speech_wait"
            /\ stop_timer' = TicksPerSecond \div 2
       ELSE /\ stop_pc' = "done"
            /\ stop_timer' = 0

\* cleanup(): motor.off() at the end of off(); then vibration.cleanup() up
\* to its sleep, or, when the write raises, the except of cleanup() and the
\* other components
StopMotorOff ==
    /\ stop_pc = "all_off_wait"
    /\ stop_timer = 0
    /\ IF pwm_ok
       THEN /\ duty' = 0
            /\ pulse_active' = FALSE
            /\ stop_pc' = "cleanup_wait"
            /\ stop_timer' = 2 * CancelWait
            /\ UNCHANGED <<camera, camera_releases, gpio_cleanups>>
       ELSE /\ ReleaseRest(gpio_cleanups)
            /\ UNCHANGED <<duty, pulse_active>>
    /\ UNCHANGED <<pulse_thread, current_intensity, pulse_rate, pulses>>
    /\ UNCHANGED <<fastVars, pwm_ok, speechVars, slow_pc, slow_errors, lockVars>>
    /\ UNCHANGED <<pwm_stops, unitVars, histVars>>

\* vibration.cleanup() after its sleep: pwm.stop(), GPIO.cleanup(); then the
\* other components
StopRelease ==
    /\ stop_pc = "cleanup_wait"
    /\ stop_timer = 0
    /\ pwm_stops' = pwm_stops + 1
    /\ ReleaseRest(gpio_cleanups + 1)
    /\ UNCHANGED <<fastVars, vibVars, pwm_ok, speechVars, slow_pc, slow_errors, lockVars>>
    /\ UNCHANGED <<unitVars, histVars>>

\* speech.cleanup() after its sleep; stop() returns
StopDone ==
    /\ stop_pc = "speech_wait"
    /\ stop_timer = 0
    /\ stop_pc' = "done"
    /\ UNCHANGED <<fastVars, vibVars, pwm_ok, speechVars, slowVars, lockVars>>
    /\ UNCHANGED <<stop_timer, pwm_stops, gpio_cleanups, unitVars, histVars>>

----------------------------------------------------------------------------

Init ==
    /\ running = FALSE
    /\ current_distance = NoReading
    /\ fast_pc = "idle"
    /\ fast_timer = 0
    /\ consecutive_errors = 0
    /\ timeouts = 0
    /\ pulse_thread = FALSE
    /\ pulse_active = FALSE
    /\ current_intensity = 0
    /\ pulse_rate = 0
    /\ duty = 0
    /\ pwm_ok = TRUE
    /\ pulses = [i \in 1..MaxPulse |-> NoThread]
    /\ now = 0
    /\ last_triggered = [k \in Keys |-> NoEntry]
    /\ speaking = FALSE
    /\ created = 0
    /\ in_speech = 0
    /\ last_call = NoCall
    /\ call_bit = FALSE
    /\ slow_pc = "idle"
    /\ slow_errors = 0
    /\ camera = "acquired"
    /\ camera_releases = 0
    /\ distance_lock = "free"
    /\ fast_distance = NoReading
    /\ current_dist = NoReading
    /\ published = NoReading
    /\ status_pc = "idle"
    /\ stop_pc = "idle"
    /\ stop_timer = 0
    /\ pwm_stops = 0
    /\ gpio_cleanups = 0
    /\ calc_prev = NoCalc
    /\ calc_last = NoCalc
    /\ sensor_pc = "idle"
    /\ sensor_time = 0
    /\ timeout_start = 0
    /\ pulse_start = 0
    /\ pulse_end = 0
    /\ echo_line = "LOW"
    /\ sensor_result = NotReturned
    /\ alert_distance = NoReading
    /\ sample_reads = 0
    /\ slow_timer = 0
    /\ pulse_written = [i \in 1..MaxPulse |-> NoWrite]
    /\ seen = NoFrame
    /\ last_outcome = "none"
    /\ speech_lock = "free"
    /\ ask = NoAsk
    /\ ready_said = FALSE

Next ==
    \/ Start
    \/ Stop
    \/ FastMeasure
    \/ FastApply
    \/ FastOffDone
    \/ \E i \in 1..MaxPulse : PulseStart(i)
    \/ \E i \in 1..MaxPulse : PulseCheck(i)
    \/ \E i \in 1..MaxPulse : PulseOff(i)
    \/ PwmFail
    \/ PwmRecover
    \/ Advance

Spec == Init /\ [][Next]_vars

\* the fast loop with the measurements without echo counted
NextTimeouts ==
    \/ Start
    \/ Stop
    \/ FastMeasureCounted
    \/ FastApply
    \/ FastOffDone
    \/ \E i \in 1..MaxPulse : PulseStart(i)
    \/ \E i \in 1..MaxPulse : PulseCheck(i)
    \/ \E i \in 1..MaxPulse : PulseOff(i)
    \/ PwmFail
    \/ PwmRecover
    \/ Advance

SpecTimeouts == Init /\ [][NextTimeouts]_vars

\* SmartSpeech called from any thread
NextSpeech ==
    \/ \E text \in Texts, force \in BOOLEAN : SpeakCall(text, force)
    \/ \E object_name \in AnnouncedObjects, distance \in AnnounceDistances :
          AnnounceCall(object_name, distance)
    \/ WorkerBegin
    \/ WorkerEnd
    \/ TickClock

SpecSpeech == Init /\ [][NextSpeech]_vars

\* speak with speech workers that end in every way; a worker that was
\* started runs, and one that runs ends: subprocess.run returns, raises, or
\* gives up after its timeout of 10 s
NextWorkers ==
    \/ \E text \in Texts, force \in BOOLEAN : SpeakCall(text, force)
    \/ WorkerBegin
    \/ WorkerEnds
    \/ TickClock

FairWorkers == WF_vars(WorkerBegin) /\ WF_vars(WorkerEnds)

SpecWorkers == Init /\ [][NextWorkers]_vars /\ FairWorkers

\* announce_critical_object called with distances on both sides of its two
\* thresholds, beside the speech threads it starts
NextAlert ==
    \/ \E object_name \in Objects, distance \in AlertDistances :
          AnnounceAt(object_name, distance)
    \/ WorkerBegin
    \/ WorkerEnd
    \/ TickClock

SpecAlert == Init /\ [][NextAlert]_vars

\* RateLimiter on its own
NextGate ==
    \/ \E key \in Texts : GateCanTrigger(key)
    \/ \E key \in Texts : GateReset(key)
    \/ TickClock

SpecGate == Init /\ [][NextGate]_vars

\* the slow loop with the speech threads it starts
NextSlow ==
    \/ Start
    \/ Stop
    \/ FastPublish
    \/ SlowIterate
    \/ SlowRecover
    \/ WorkerBegin
    \/ WorkerEnd
    \/ TickClock

SpecSlow == Init /\ [][NextSlow]_vars

\* the two loops step by step, the status snapshot and the speech threads;
\* the measurements of LoopEchoes ask for no pulse thread, so that the fast
\* loop sleeps only at the end of its iteration
NextLoops ==
    \/ Start
    \/ Stop
    \/ FastRead
    \/ FastAcquire
    \/ FastWrite
    \/ FastUpdate
    \/ Advance
    \/ SlowTest
    \/ SlowAcquire
    \/ SlowRead
    \/ SlowDetect
    \/ SlowRecover
    \/ StatusAcquire
    \/ StatusRead
    \/ WorkerBegin
    \/ WorkerEnd

SpecLoops == Init /\ [][NextLoops]_vars

\* the shutdown beside the fast loop and its pulse threads: stop() and
\* cleanup(); the slow loop gets as far as its loop test, so that its join
\* ends in both ways
NextStop ==
    \/ Start
    \/ Stop
    \/ StopAnnounce
    \/ StopJoinFast
    \/ StopJoinSlow
    \/ StopCleanup
    \/ StopMotorOff
    \/ StopRelease
    \/ StopDone
    \/ FastMeasureNear
    \/ FastApply
    \/ FastOffDone
    \/ \E i \in 1..MaxPulse : PulseStart(i)
    \/ \E i \in 1..MaxPulse : PulseCheck(i)
    \/ \E i \in 1..MaxPulse : PulseOff(i)
    \/ PwmFail
    \/ PwmRecover
    \/ Advance
    \/ SlowTest
    \/ WorkerBegin
    \/ WorkerEnd

SpecStop == Init /\ [][NextStop]_vars

\* the shutdown beside the slow loop and its camera recovery; the
\* measurements of ReleaseEchoes ask for no pulse thread
NextRelease ==
    \/ Start
    \/ Stop
    \/ StopAnnounce
    \/ StopJoinFast
    \/ StopJoinSlow
    \/ StopCleanup
    \/ StopMotorOff
    \/ StopRelease
    \/ StopDone
    \/ FastMeasureCritical
    \/ FastOffDone
    \/ PwmFail
    \/ PwmRecover
    \/ Advance
    \/ SlowIterate
    \/ SlowRecover
    \/ WorkerBegin
    \/ WorkerEnd

SpecRelease == Init /\ [][NextRelease]_vars

\* the two loops after stop() has cleared the flag, under actuator faults
\* and camera failures.  Each thread is scheduled again and again, time
\* passes, and detect_objects() and CameraManager() return: the steps of the
\* loops and of the clock are weakly fair; faults and speech are not.
NextExit ==
    \/ Start
    \/ Stop
    \/ FastMeasureCritical
    \/ FastOffDone
    \/ PwmFail
    \/ PwmRecover
    \/ Advance
    \/ SlowIterate
    \/ SlowRecover
    \/ WorkerBegin
    \/ WorkerEnd

FairExit ==
    /\ WF_vars(FastMeasureCritical)
    /\ WF_vars(FastOffDone)
    /\ WF_vars(Advance)
    /\ WF_vars(SlowIterate)
    /\ WF_vars(SlowRecover)

SpecExit == Init /\ [][NextExit]_vars /\ FairExit

\* the fast loop beside a slow loop that may stay in any of its steps for
\* ever.  The fast thread is scheduled again and again and its sleeps end; a
\* thread inside a with block of the distance lock finishes its one
\* statement; the fast loop gets the lock, since the other two threads sleep
\* for seconds between two acquisitions.  The slow loop's own steps and
\* stop() have no fairness.
NextHaptic ==
    \/ Start
    \/ Stop
    \/ FastReadNear
    \/ FastAcquire
    \/ FastWrite
    \/ FastUpdate
    \/ Advance
    \/ SlowTest
    \/ SlowAcquire
    \/ SlowRead
    \/ SlowDetect
    \/ SlowRecover
    \/ StatusAcquire
    \/ StatusRead
    \/ WorkerBegin
    \/ WorkerEnd

FairHaptic ==
    /\ WF_vars(FastReadNear)
    /\ SF_vars(FastAcquire)
    /\ WF_vars(FastWrite)
    /\ WF_vars(FastUpdate)
    /\ WF_vars(Advance)
    /\ WF_vars(SlowRead)
    /\ WF_vars(StatusRead)

SpecHaptic == Init /\ [][NextHaptic]_vars /\ FairHaptic

\* the two loops under failures of their collaborators: the actuator write,
\* the vision call, the camera reopening and the start of a speech thread
NextErrors ==
    \/ Start
    \/ Stop
    \/ FastMeasureCritical
    \/ FastOffDone
    \/ PwmFail
    \/ PwmRecover
    \/ Advance
    \/ SlowIterate
    \/ SlowAnnounceRaises
    \/ SlowRecover
    \/ WorkerBegin
    \/ WorkerEnd

SpecErrors == Init /\ [][NextErrors]_vars

\* the two loops with the time of both, under actuator faults and camera
\* failures: how often the slow loop reads one published sample
NextFresh ==
    \/ Start
    \/ FastPublishes
    \/ FastOffDone
    \/ PwmFail
    \/ Advance
    \/ SlowSamples
    \/ SlowRecover
    \/ WorkerBegin
    \/ WorkerEnd

SpecFresh == Init /\ [][NextFresh]_vars

\* the slow loop with the detection list of each iteration
NextSee ==
    \/ Start
    \/ Stop
    \/ FastPublish
    \/ SlowSees
    \/ SlowRecover
    \/ WorkerBegin
    \/ WorkerEnd

SpecSee == Init /\ [][NextSee]_vars

\* the threads that take a lock, step by step: the fast loop, the slow loop
\* through announce_critical_object and speak, the
\* main thread in its final announcement and its status snapshot, and the
\* speech workers.  A thread inside a with block finishes its one statement
\* and leaves the block; a thread that waits for a lock gets it when the lock
\* is free again and again, the holders keeping a lock for one statement and
\* sleeping between two acquisitions.  What the threads do outside the locks
\* has no fairness: a thread may stay there for ever.  The main thread
\* takes the speech lock in start(); what it does in stop() is the same call.
NextLocks ==
    \/ Start
    \/ FastReadNear
    \/ FastAcquire
    \/ FastWrite
    \/ FastUpdate
    \/ Advance
    \/ SlowTest
    \/ SlowAcquire
    \/ SlowRead
    \/ SlowDetectCut
    \/ SlowLockReset
    \/ SlowReset
    \/ SlowGate
    \/ SlowLockStart
    \/ SlowStart
    \/ SlowRecover
    \/ MainSpeakCall
    \/ MainLockStart
    \/ MainStart
    \/ StatusAcquire
    \/ StatusRead
    \/ WorkerBegin
    \/ WorkerEnd

FairLocks ==
    /\ SF_vars(FastAcquire)
    /\ WF_vars(FastWrite)
    /\ SF_vars(SlowAcquire)
    /\ WF_vars(SlowRead)
    /\ SF_vars(SlowLockReset)
    /\ WF_vars(SlowReset)
    /\ SF_vars(SlowLockStart)
    /\ WF_vars(SlowStart)
    /\ SF_vars(MainLockStart)
    /\ WF_vars(MainStart)
    /\ WF_vars(StatusRead)

SpecLocks == Init /\ [][NextLocks]_vars /\ FairLocks

\* the fast loop and its pulse threads, with the last write of each thread
NextPulse ==
    \/ Start
    \/ Stop
    \/ FastMeasure
    \/ FastApply
    \/ FastOffDone
    \/ \E i \in 1..MaxPulse : PulseStartTraced(i)
    \/ \E i \in 1..MaxPulse : PulseCheckTraced(i)
    \/ \E i \in 1..MaxPulse : PulseOffTraced(i)
    \/ PwmFail
    \/ PwmRecover
    \/ Advance

SpecPulse == Init /\ [][NextPulse]_vars

\* calls of _calculate_intensity, any number, on any of the inputs
NextClassify == Classify

SpecClassify == Init /\ [][NextClassify]_vars

\* measurements of the sensor on their own
NextSensor ==
    \/ SensorCall
    \/ SensorTriggerRaises
    \/ SensorInputRaises
    \/ SensorPollRise
    \/ SensorPollFall
    \/ SensorTick
    \/ EchoRise
    \/ EchoFall

SpecSensor == Init /\ [][NextSensor]_vars

\* the thread in get_distance keeps polling and its clock keeps running
FairSensor ==
    /\ WF_vars(SensorPollRise)
    /\ WF_vars(SensorPollFall)
    /\ WF_vars(SensorTick)

SpecMeasure == Init /\ [][NextSensor]_vars /\ FairSensor

\* the fast loop and its pulse threads, with calls of _calculate_intensity
\* from outside the loop in between
NextPure ==
    \/ Start
    \/ Stop
    \/ FastMeasureCounted
    \/ FastApply
    \/ FastOffDone
    \/ \E i \in 1..MaxPulse : PulseStart(i)
    \/ \E i \in 1..MaxPulse : PulseCheck(i)
    \/ \E i \in 1..MaxPulse : PulseOff(i)
    \/ Advance
    \/ ClassifyProbe

SpecPure == Init /\ [][NextPure]_vars

----------------------------------------------------------------------------
\* Properties

\* a step that is a call of the gate
IsCall == call_bit' # call_bit

InFlight == created + in_speech > 0

\* C1: at every moment at most one pulse sub-loop of the actuator is alive:
\* the previous one has stopped before update_from_distance starts a new one
C1_AtMostOnePulseLoop == Cardinality(Alive) <= 1

\* C2: a non-forced alert issued while a speech thread started earlier is
\* still alive returns False and starts no speech thread
C2_SuppressedWhileInFlight ==
    [][(IsCall /\ last_call'.op \in {"speak", "announce"} /\ ~last_call'.force /\ InFlight)
         => (~last_call'.ret /\ created' = created)]_vars

C4_ForcedAlwaysFires ==
    [][(IsCall /\ last_call'.op \in {"speak", "announce"} /\ last_call'.force)
         => (last_call'.ret /\ created' = created + 1)]_vars

\* C4 witness: a forced alert fired while a speech was in flight, the flag
\* set and the key inside its cooldown
C4_Witness ==
    /\ last_call.op \in {"speak", "announce"}
    /\ last_call.force
    /\ last_call.ret
    /\ last_call.flight
    /\ last_call.flag
    /\ last_call.age # NoEntry
    /\ last_call.age < SPEECH_COOLDOWN

\* C5 as claimed: a forced alert for a key records the time of the call as
\* the last-fire time of the key
C5_ForcedRecordsTime ==
    [][(IsCall /\ last_call'.op \in {"speak", "announce"} /\ last_call'.force)
         => last_triggered'[last_call'.key] = now]_vars

\* C5 amended: a forced alert records nothing: speak with force leaves every
\* entry as it was, and the critical branch of announce_critical_object
\* deletes the entry of its key and leaves the others
C5_ForcedRecordsNothing ==
    [][(IsCall /\ last_call'.op \in {"speak", "announce"} /\ last_call'.force)
         => LET k == last_call'.key
            IN IF last_call'.op = "speak"
               THEN last_triggered' = last_triggered
               ELSE last_triggered' = [last_triggered EXCEPT ![k] = NoEntry]]_vars

\* C5 witness: a forced speak found its key inside the cooldown window that
\* an earlier non-forced alert opened, and the entry is still that earlier one
C5_Witness ==
    /\ last_call.op = "speak"
    /\ last_call.force
    /\ last_call.ret
    /\ last_call.age # NoEntry
    /\ last_call.age > 0
    /\ last_triggered[last_call.key] # NoEntry
    /\ last_triggered[last_call.key] < now

\* C6: reset(k) deletes the entry of k and nothing else, and the call of
\* can_trigger(k) that follows it returns True, whatever time has passed
C6_ResetThenAccepted ==
    [][IsCall =>
         /\ last_call'.op = "reset"
              => last_triggered' = [last_triggered EXCEPT ![last_call'.key] = NoEntry]
         /\ (last_call.op = "reset" /\ last_call'.op = "can_trigger"
               /\ last_call'.key = last_call.key)
              => last_call'.ret]_vars

\* C6 witness: can_trigger accepted a key right after a reset that found the
\* key inside its cooldown
C6_Witness ==
    /\ last_call.op = "can_trigger"
    /\ last_call.after_reset
    /\ last_call.ret
    /\ last_triggered[last_call.key] = now

\* C7: a non-forced alert that returns False changes no entry of the gate
\* and starts no speech thread
C7_RejectedLeavesState ==
    [][(IsCall /\ last_call'.op \in {"speak", "announce"} /\ ~last_call'.force
          /\ ~last_call'.ret)
         => /\ last_triggered' = last_triggered
            /\ created' = created
            /\ in_speech' = in_speech
            /\ speaking' = speaking]_vars

\* C7 witness: a non-forced alert whose cooldown had elapsed was rejected
\* because a speech was in flight
C7_Witness ==
    /\ last_call.op \in {"speak", "announce"}
    /\ ~last_call.force
    /\ ~last_call.ret
    /\ last_call.flag
    /\ last_call.age >= SPEECH_COOLDOWN

\* C8 as claimed: the 10th consecutive measurement without echo terminates
\* the fast loop, so the loop never goes on to a next iteration after it
C8_TenthTimeoutTerminates ==
    timeouts >= max_errors_fast => fast_pc # "iter"

\* C8 amended: measurements without echo never terminate the fast loop: while
\* the PWM accepts writes, an iteration whose measurement returns None adds
\* nothing to the error counter and stays in the loop, an iteration that
\* completes resets the counter, and the loop is left on errors only with
\* the counter at 10
C8_TimeoutsAreNotErrors ==
    [][/\ (timeouts' = timeouts + 1 /\ pwm_ok)
            => /\ fast_pc' \in {"iter", "cancel_wait"}
               /\ consecutive_errors' <= consecutive_errors
               /\ fast_pc' = "iter" => consecutive_errors' = 0
               /\ current_distance' = NoReading
       /\ (fast_pc' = "exit_errors" /\ fast_pc # "exit_errors")
            => consecutive_errors = max_errors_fast]_vars

\* C8 witness: ten measurements in a row found no echo and the fast loop is
\* in its next sleep, its error counter at 0
C8_Witness ==
    /\ timeouts >= max_errors_fast
    /\ running
    /\ fast_pc = "iter"
    /\ consecutive_errors = 0
    /\ current_distance = NoReading

\* C9: the fast loop is left on errors exactly with the counter at 10, and
\* then the actuator is off: pulse flag cleared, output 0
C9_ExitsWithActuatorOff ==
    fast_pc = "exit_errors"
        => (consecutive_errors = max_errors_fast /\ ~pulse_active /\ duty = 0)

C11_RecoveryExactlyAtCeiling ==
    [][/\ (slow_pc = "iter" /\ slow_errors' = slow_errors + 1
                /\ slow_errors' < max_errors_slow)
            => (slow_pc' = "iter" /\ camera' = camera)
       /\ (slow_pc = "iter" /\ slow_errors' = slow_errors + 1
                /\ slow_errors' >= max_errors_slow)
            => (slow_errors' = max_errors_slow /\ slow_pc' = "recover"
                    /\ camera = "acquired" /\ camera' = "released")
       /\ (camera' # camera /\ camera' = "released")
            => (slow_pc = "iter" /\ slow_errors' = max_errors_slow
                    /\ slow_errors = max_errors_slow - 1)
       /\ (camera' # camera /\ camera' = "acquired")
            => (slow_pc = "recover" /\ slow_pc' = "iter" /\ slow_errors' = 0)
       /\ (slow_pc' = "recover" /\ slow_pc # "recover") => slow_pc = "iter"]_vars

\* C11 witness: the counter has reached 5 in a running system and the
\* reinitialization is under way, the camera released
C11_Witness ==
    /\ slow_pc = "recover"
    /\ running
    /\ slow_errors = max_errors_slow
    /\ camera = "released"
    /\ current_distance # NoReading

\* C12: every iteration that completes without an error resets the
\* consecutive-error counter of its loop to 0: in the fast loop the iteration
\* that returns from update_from_distance, in the slow loop also the
\* iterations that end early (no obstacle near, nothing detected, nothing in
\* the center)
C12_SuccessResetsCounter ==
    [][/\ (fast_pc \in {"update", "cancel_wait"} /\ fast_pc' = "iter")
            => consecutive_errors' = 0
       /\ (slow_pc \in {"read", "detect"} /\ slow_pc' = "iter"
                /\ slow_errors' # slow_errors + 1)
            => slow_errors' = 0]_vars

C14_ReleasedExactlyOnce ==
    /\ camera_releases <= 1
    /\ pwm_stops <= 1
    /\ stop_pc = "done"
        => (pwm_stops = 1 /\ camera = "released" /\ camera_releases = 1)

\* C15: once stop() has cleared the running flag, the fast loop and the slow
\* loop both end, whatever they were doing: measuring, sleeping, in the error
\* backoff or in the camera recovery.
C15_LoopsEventuallyExit ==
    (stop_pc # "idle" /\ ~running) ~> (FastExited /\ SlowExited)

\* stop() finds the fast loop in its error backoff and the slow loop in the
\* camera recovery
C15_Witness ==
    /\ stop_pc # "idle"
    /\ ~running
    /\ fast_pc = "iter"
    /\ fast_timer > LoopDelay
    /\ slow_pc = "recover"

\* C16: the shared distance is one slot where the last write wins.  A fast
\* iteration writes its measurement, a value or None, before it drives the
\* actuator, and drives it with that measurement; only that write changes the
\* slot; a read of the slow loop returns the most recent completed write, None
\* before the first.
C16_LastWriteWins ==
    [][/\ (slow_pc = "read" /\ slow_pc' # "read") => current_dist' = published
       /\ (fast_pc = "update" /\ fast_pc' # "update")
            => /\ published = fast_distance
               /\ current_distance = fast_distance
               /\ current_intensity' = _calculate_intensity(published).intensity
       /\ current_distance' # current_distance
            => (fast_pc = "write" /\ current_distance' = fast_distance)]_vars

\* the slow loop has read 20 while the next measurement, 200, waits for the
\* lock
C16_Witness ==
    /\ slow_pc = "detect"
    /\ current_dist = 20
    /\ published = 20
    /\ fast_pc = "acquire"
    /\ fast_distance = 200

\* C17: the distance lock is held only across the one read or the one write
\* of current_distance.  Its holder is the thread that stands at that read or
\* write, never one that measures, calls the camera, asks for speech, drives
\* the actuator or sleeps, and the holder's next step gives the lock back.
C17_LockHeldOnlyForAccess ==
    /\ [](/\ distance_lock = "fast" <=> fast_pc = "write"
          /\ distance_lock = "slow" <=> slow_pc = "read"
          /\ distance_lock = "main" <=> status_pc = "read")
    /\ [][/\ (distance_lock = "fast" /\ fast_pc' # fast_pc) => distance_lock' = "free"
          /\ (distance_lock = "slow" /\ slow_pc' # slow_pc) => distance_lock' = "free"
          /\ (distance_lock = "main" /\ status_pc' # status_pc) => distance_lock' = "free"]_vars

\* the slow loop holds the lock for its read while the fast loop waits to
\* write and the status snapshot has not begun
C17_Witness ==
    /\ distance_lock = "slow"
    /\ fast_pc = "acquire"
    /\ status_pc = "idle"
    /\ current_distance = 20

\* C18: while the system runs, the fast loop, which meets no error here,
\* keeps completing iterations: again and again it
\* has published and stands at the actuator update, and again and again it
\* has finished the update and sleeps, wherever the slow loop is or stays.
C18_HapticContinues ==
    /\ []<>(~running \/ fast_pc = "update")
    /\ []<>(~running \/ (fast_pc = "iter" /\ fast_timer > 0))

\* the slow loop has stopped after a failed camera recovery, and the fast
\* loop has published a measurement of 20 cm and is about to drive the motor
C18_Witness ==
    /\ running
    /\ slow_pc = "exit_recovery"
    /\ fast_pc = "update"
    /\ fast_distance = 20
    /\ published = 20

\* C19: the slow loop never waits for speech to finish.  Whenever it is about
\* to run an iteration with an obstacle nearer than the speech distance, the
\* iteration that calls announce_critical_object can be taken at once and
\* ends at the loop's sleep, whether or not speech threads are alive or the
\* speaking flag is set; and the call leaves those threads as they are.
C19_AlertNeverWaits ==
    /\ []((/\ slow_pc = "iter"
           /\ running
           /\ ~SkipsDetection(current_distance)
           /\ current_distance < SPEECH_TRIGGER_DISTANCE
           /\ created + in_speech < MaxWorkers)
          => ENABLED (SlowIterate /\ call_bit' # call_bit /\ slow_pc' = "iter"))
    /\ [][(call_bit' # call_bit /\ last_call'.op = "announce")
            => /\ slow_pc' = "iter"
               /\ in_speech' = in_speech
               /\ speaking' = speaking]_vars

\* the loop has started a speech thread for an alert while the thread of an
\* earlier utterance was still speaking, and is back at its sleep
C19_Witness ==
    /\ slow_pc = "iter"
    /\ running
    /\ last_call.op = "announce"
    /\ last_call.ret
    /\ last_call.flight
    /\ in_speech > 0
    /\ created > 0

C21_NoAlertAfterExhaustion ==
    [][fast_pc = "exit_errors"
        => ~(call_bit' # call_bit /\ last_call'.op = "announce")]_vars

C24_ClassifyFollowsTable ==
    (calc_last.zone # "none" /\ calc_last.distance # NoReading)
        => LET d == calc_last.distance
               Is(zone, rate, low, high) ==
                   /\ calc_last.zone = zone
                   /\ calc_last.pulse_rate = rate
                   /\ low <= calc_last.intensity
                   /\ calc_last.intensity <= high
           IN /\ d < 30 * Hundredths => Is("critical", 0, 100, 100)
              /\ (30 * Hundredths <= d /\ d < 60 * Hundredths) => Is("danger", 5, 70, 100)
              /\ (60 * Hundredths <= d /\ d < 100 * Hundredths) => Is("warning", 2, 40, 70)
              /\ (100 * Hundredths <= d /\ d < 150 * Hundredths) => Is("caution", 1, 20, 40)
              /\ 150 * Hundredths <= d => Is("clear", 0, 0, 0)
              /\ calc_last.intensity \in 0..100

\* the last call was made with 99.99 cm, the far end of the warning zone
C24_Witness ==
    /\ calc_last.distance = 100 * Hundredths - 1
    /\ calc_last.zone = "warning"
    /\ calc_last.intensity = 41
    /\ calc_last.pulse_rate = 2

\* C25 as stated: at every zone boundary b (30, 60, 100, 150 cm) the
\* intensity returned one hundredth below b and the intensity returned at b
\* differ by at most 1, the rounding of one interpolation step.
C25_ContinuousAtBoundaries ==
    (/\ calc_last.distance \in Boundaries
     /\ calc_prev.zone # "none"
     /\ calc_prev.distance = calc_last.distance - 1)
        => /\ calc_prev.intensity - calc_last.intensity <= 1
           /\ calc_last.intensity - calc_prev.intensity <= 1

\* C25, amended: at the boundaries 30, 60 and 100 cm the intensity one
\* hundredth below the boundary and the intensity at the boundary differ by
\* at most 1; at 150 cm the intensity falls from 21 to 0.
C25_ContinuousBelowClear ==
    (/\ calc_last.distance \in Boundaries
     /\ calc_prev.zone # "none"
     /\ calc_prev.distance = calc_last.distance - 1)
        => IF calc_last.distance = 150 * Hundredths
           THEN calc_prev.intensity = 21 /\ calc_last.intensity = 0
           ELSE /\ calc_prev.intensity - calc_last.intensity \in {0, 1}
                /\ calc_last.intensity \in {100, 70, 40}

\* the calls with 149.99 cm and then with 150.00 cm
C25_Witness ==
    /\ calc_prev.distance = 150 * Hundredths - 1
    /\ calc_prev.zone = "caution"
    /\ calc_last.distance = 150 * Hundredths
    /\ calc_last.zone = "clear"

\* C26: the intensity never rises with the distance: of two calls with
\* distances d1 <= d2 the one with d1 returns at least the intensity of the
\* other; and 200, 90, 55, 25 and 5 cm give the zones clear, warning, danger,
\* critical and critical with the intensities 0, 48, 75, 100 and 100.
C26_IntensityMonotone ==
    /\ (/\ calc_prev.zone # "none"
        /\ calc_prev.distance # NoReading
        /\ calc_last.distance # NoReading)
         => /\ calc_prev.distance <= calc_last.distance
                 => calc_prev.intensity >= calc_last.intensity
            /\ calc_prev.distance >= calc_last.distance
                 => calc_prev.intensity <= calc_last.intensity
    /\ calc_last.distance = 200 * Hundredths
         => (calc_last.zone = "clear" /\ calc_last.intensity = 0)
    /\ calc_last.distance = 90 * Hundredths
         => (calc_last.zone = "warning" /\ calc_last.intensity = 48)
    /\ calc_last.distance = 55 * Hundredths
         => (calc_last.zone = "danger" /\ calc_last.intensity = 75)
    /\ calc_last.distance = 25 * Hundredths
         => (calc_last.zone = "critical" /\ calc_last.intensity = 100)
    /\ calc_last.distance = 5 * Hundredths
         => (calc_last.zone = "critical" /\ calc_last.intensity = 100)

\* the approach from 90 cm to 55 cm: from warning at 48 to danger at 75
C26_Witness ==
    /\ calc_prev.distance = 90 * Hundredths
    /\ calc_prev.intensity = 48
    /\ calc_last.distance = 55 * Hundredths
    /\ calc_last.intensity = 75

\* C27: _calculate_intensity returns (0, 0, no_reading) for no reading; every
\* call returns an intensity of 0..100, a pulse rate of the table and a zone
\* name; a call changes nothing of the actuator (pulse flag, current
\* intensity, pulse rate, pulse thread, duty cycle) nor of the loops; and two
\* calls with the same distance return the same result.
C27_ClassifyPureAndTotal ==
    /\ [](calc_last.zone # "none"
            => /\ calc_last.intensity \in 0..100
               /\ calc_last.pulse_rate \in {0, 1, 2, 5}
               /\ calc_last.zone \in
                     {"critical", "danger", "warning", "caution", "clear", "no_reading"})
    /\ []((calc_last.zone # "none" /\ calc_last.distance = NoReading)
            => /\ calc_last.intensity = 0
               /\ calc_last.pulse_rate = 0
               /\ calc_last.zone = "no_reading")
    /\ []((calc_prev.zone # "none" /\ calc_prev.distance = calc_last.distance)
            => calc_prev = calc_last)
    /\ [][(calc_last' # calc_last \/ calc_prev' # calc_prev)
            => /\ UNCHANGED <<vibVars, pwm_ok>>
               /\ UNCHANGED <<fastVars, speechVars, slowVars, lockVars, stopVars>>]_vars

\* a call without a reading made while a pulse thread drives the motor
C27_Witness ==
    /\ calc_last.distance = NoReading
    /\ calc_last.zone = "no_reading"
    /\ pulse_active
    /\ current_intensity > 0
    /\ duty > 0

\* C28: get_distance returns None or a distance of 2 to 400 cm, both ends
\* included, and never raises: both timeouts, a computed distance outside
\* the range and an exception of the GPIO calls return None; a distance
\* within the range is returned as computed; and a call sends one trigger
\* and never goes back from the second loop or from a failure to the first.
C28_NoneOrInRange ==
    /\ [](sensor_pc \in {"idle", "rise", "fall"} => sensor_result = NotReturned)
    /\ [](sensor_pc \in SensorEnds
            => \/ sensor_result = NoReading
               \/ /\ sensor_result >= 2 * Hundredths
                  /\ sensor_result <= 400 * Hundredths)
    /\ [](sensor_pc \in {"timeout_rise", "timeout_fall", "out_of_range", "error"}
            => sensor_result = NoReading)
    /\ [](sensor_pc = "measured" => sensor_result = EchoDistance)
    /\ [](sensor_pc = "out_of_range"
            => (EchoDistance < 2 * Hundredths \/ EchoDistance > 400 * Hundredths))
    /\ [](sensor_result # Raised)
    /\ [][(sensor_pc' = "rise" /\ sensor_pc # "rise")
            => /\ sensor_pc \in ({"idle"} \cup SensorEnds)
               /\ sensor_time' = 0]_vars
    /\ [][(sensor_pc \in SensorEnds /\ unitVars' # unitVars)
            => sensor_pc' \in {"rise", "error"}]_vars

\* an echo of exactly 2 cm is returned
C28_Witness ==
    /\ sensor_pc = "measured"
    /\ sensor_result = 2 * Hundredths

\* C29 as stated: each of the two loops of get_distance is left no later
\* than SENSOR_TIMEOUT after it was entered.
C29_PhaseWithinTimeout ==
    [][(sensor_pc \in {"rise", "fall"} /\ sensor_pc' # sensor_pc)
        => sensor_time - timeout_start <= SENSOR_TIMEOUT]_vars

\* C29: get_distance terminates, and each of its two loops is left at the
\* latest by the first poll made after SENSOR_TIMEOUT has passed since the
\* loop was entered: no poll later than that leaves the loop running, and
\* such a poll returns None when the echo line still has its old level.
C29_PhaseEndsAtFirstLatePoll ==
    /\ [](sensor_pc = "rise" => pulse_start - timeout_start <= SENSOR_TIMEOUT)
    /\ [](sensor_pc = "fall" => pulse_end - timeout_start <= SENSOR_TIMEOUT)
    /\ [][(/\ sensor_pc \in {"rise", "fall"}
           /\ sensor_time - timeout_start > SENSOR_TIMEOUT
           /\ sensor_time' = sensor_time
           /\ echo_line' = echo_line)
            => sensor_pc' # sensor_pc]_vars
    /\ [][(/\ sensor_pc = "rise"
           /\ echo_line = "LOW"
           /\ sensor_time - timeout_start > SENSOR_TIMEOUT
           /\ sensor_time' = sensor_time
           /\ echo_line' = echo_line)
            => (sensor_pc' \in {"timeout_rise", "error"} /\ sensor_result' = NoReading)]_vars
    /\ [][(/\ sensor_pc = "fall"
           /\ echo_line = "HIGH"
           /\ sensor_time - timeout_start > SENSOR_TIMEOUT
           /\ sensor_time' = sensor_time
           /\ echo_line' = echo_line)
            => (sensor_pc' \in {"timeout_fall", "error"} /\ sensor_result' = NoReading)]_vars
    /\ [](sensor_pc = "timeout_rise" => pulse_start - timeout_start > SENSOR_TIMEOUT)
    /\ [](sensor_pc = "timeout_fall" => pulse_end - timeout_start > SENSOR_TIMEOUT)
    /\ (sensor_pc \in {"rise", "fall"} ~> sensor_pc \in SensorEnds)

\* the first loop ended by the first poll after the timeout, the echo line
\* still low: the call returns None later than SENSOR_TIMEOUT after its entry
C29_Witness ==
    /\ sensor_pc = "timeout_rise"
    /\ echo_line = "LOW"
    /\ sensor_result = NoReading
    /\ sensor_time - timeout_start = SENSOR_TIMEOUT + 1

\* C30: between a command without pulses that update_from_distance has
\* applied (a constant level in the critical zone, or zero) and the next
\* command, the duty cycle of the motor is the commanded level.
C30_LevelHeldUntilNextCommand ==
    (/\ fast_pc = "iter"
     /\ consecutive_errors = 0
     /\ (current_intensity = 0 \/ pulse_rate = 0))
        => duty = Clamp(current_intensity)

\* C31: off() is safe in every state and idempotent.  When off() returns,
\* from the except branch of the fast loop or from cleanup(), with or without
\* a pulse thread alive, the pulse flag is cleared and the duty cycle is 0;
\* with the flag cleared and the duty cycle 0, no step other than a command
\* of the fast loop or the shutdown raises the duty cycle again; and off()
\* called with the flag cleared and the duty cycle 0 leaves the actuator
\* state as it is.
C31_OffIsSafeAndIdempotent ==
    /\ [][(/\ fast_pc = "off_wait"
           /\ fast_pc' # "off_wait"
           /\ pwm_ok)
            => (~pulse_active' /\ duty' = 0)]_vars
    /\ [][(stop_pc = "all_off_wait" /\ stop_pc' = "cleanup_wait")
            => (~pulse_active' /\ duty' = 0)]_vars
    /\ [][(/\ ~pulse_active
           /\ duty = 0
           /\ UNCHANGED <<fast_pc, fast_timer, current_intensity, pulse_rate>>)
            => (~pulse_active' /\ duty' = 0)]_vars
    /\ [][(/\ ~pulse_active
           /\ duty = 0
           /\ \/ stop_pc = "join_slow" /\ stop_pc' = "all_off_wait"
              \/ stop_pc = "all_off_wait" /\ stop_pc' = "cleanup_wait"
              \/ fast_pc = "off_wait" /\ fast_pc' # "off_wait")
            => UNCHANGED <<pulse_thread, pulse_active, current_intensity,
                           pulse_rate, duty>>]_vars

\* off() of cleanup() has returned while a pulse thread is still alive
C31_Witness ==
    /\ stop_pc = "cleanup_wait"
    /\ ~pulse_active
    /\ duty = 0
    /\ Alive # {}

\* C32: the distance alone decides what announce_critical_object does.
\* Without a reading or at 80 cm and beyond it returns False, starts no
\* speech thread and leaves the gate as it is; below 30 cm it issues a forced
\* alert with the warning text, which is accepted; from 30 cm to below 80 cm
\* it issues a non-forced alert, accepted exactly when speaking is clear and
\* the key is outside its cooldown.
C32_DistanceDecidesAlertKind ==
    [][(IsCall /\ last_call'.op \in {"announce", "announce_skip"})
        => LET d == alert_distance'
               c == last_call'
           IN /\ (d = NoReading \/ d >= 80)
                   => /\ c.op = "announce_skip"
                      /\ ~c.ret
                      /\ UNCHANGED <<last_triggered, created, speaking, in_speech>>
              /\ (d # NoReading /\ d < 30)
                   => /\ c.op = "announce"
                      /\ c.force
                      /\ c.ret
                      /\ c.key \in {Warning(speech_map(o)) : o \in Objects}
                      /\ created' = created + 1
              /\ (d # NoReading /\ d >= 30 /\ d < 80)
                   => /\ c.op = "announce"
                      /\ ~c.force
                      /\ c.key \in {speech_map(o) : o \in Objects}
                      /\ c.ret <=> (~c.flag /\ (c.age = NoEntry \/ c.age >= SPEECH_COOLDOWN))
                      /\ created' = IF c.ret THEN created + 1 ELSE created]_vars

\* a call at exactly 30 cm was made without force and turned down, a
\* speech thread being at work
C32_Witness ==
    /\ last_call.op = "announce"
    /\ alert_distance = 30
    /\ ~last_call.force
    /\ ~last_call.ret
    /\ last_call.flag

\* C33: a forced alert of announce_critical_object deletes the last-fire
\* entry of its own key and of no other: the entries of all other keys are
\* after the call what they were before it.
C33_ForcedResetsOwnKeyOnly ==
    [][(IsCall /\ last_call'.op = "announce" /\ last_call'.force)
        => /\ \A k \in Keys \ {last_call'.key} :
                 last_triggered'[k] = last_triggered[k]
           /\ last_triggered'[last_call'.key] = NoEntry]_vars

\* a forced alert found an entry of its own key and deleted it, and the
\* entry of the unforced text of the same object is still there
C33_Witness ==
    /\ last_call.op = "announce"
    /\ last_call.force
    /\ last_call.key = "Warning table"
    /\ last_call.age # NoEntry
    /\ last_triggered["Warning table"] = NoEntry
    /\ last_triggered["table"] # NoEntry

\* C34: every iteration of the slow loop that passes its vision gate does
\* so on a sample that the fast loop published within the last slow-loop
\* period: no iteration before it has read the same published sample.
C34_SampleNoOlderThanOnePeriod ==
    [][(slow_timer' > slow_timer /\ ~SkipsDetection(current_distance))
        => sample_reads = 0]_vars

\* C35: a pulse thread writes the commanded intensity and 0 in turn, the
\* intensity first, and sleeps the same half period after either write; while
\* it is the only thread and the loops issue nothing, the output changes with
\* its writes only; a thread that finds the flag cleared ends without a
\* further write, the last thing it wrote, if anything, being 0.
C35_PulseAlternates ==
    /\ [][\A i \in 1..MaxPulse :
            (pulses[i].pc = "check" /\ pulses'[i].pc = "on")
                => /\ pulse_written[i] \in {NoWrite, 0}
                   /\ duty' = Clamp(current_intensity)
                   /\ pulses'[i].timer = pulses[i].dur]_vars
    /\ [][\A i \in 1..MaxPulse :
            (pulses[i].pc = "on" /\ pulses'[i].pc = "check")
                => /\ pulse_written[i] # NoWrite
                   /\ duty' = 0
                   /\ pulse_written'[i] = 0
                   /\ pulses'[i].timer = pulses[i].dur]_vars
    /\ [][\A i \in 1..MaxPulse :
            (pulses[i].pc \in {"check", "on"} /\ pulses'[i].pc \in {"check", "on"})
                => /\ pulses'[i].dur = pulses[i].dur
                   /\ pulses[i].dur > 0]_vars
    /\ [][(/\ Cardinality(Alive) = 1
           /\ \A i \in 1..MaxPulse : pulses'[i].pc = pulses[i].pc
           /\ UNCHANGED <<fast_pc, fast_timer>>)
                => duty' = duty]_vars
    /\ [][\A i \in 1..MaxPulse :
            (/\ pulses[i].pc = "check"
             /\ pulses[i].timer = 0
             /\ ~pulse_active
             /\ pulses'[i] # pulses[i])
                => /\ pulses'[i] = NoThread
                   /\ duty' = duty
                   /\ pulse_written[i] \in {NoWrite, 0}]_vars

\* a single thread that has run its on and off phase stands at the test of
\* the cleared flag, the output 0
C35_Witness ==
    \E i \in 1..MaxPulse :
        /\ Alive = {i}
        /\ pulses[i].pc = "check"
        /\ pulses[i].timer = 0
        /\ ~pulse_active
        /\ pulse_written[i] = 0
        /\ duty = 0

\* C36: an iteration of the slow loop that calls announce_critical_object
\* has a detection list with an in-center detection, and the text it asks for
\* is that of an in-center detection whose confidence no other in-center
\* detection of the list exceeds; an iteration whose list is empty or has no
\* in-center detection makes no call and leaves the speech gate as it is.
C36_BestCenterAnnounced ==
    /\ [][IsCall
            => /\ last_call'.op = "announce"
               /\ seen'.ran
               /\ seen'.asked
               /\ \E i \in 1..Len(seen'.list) :
                     /\ seen'.list[i].is_center
                     /\ \A k \in 1..Len(seen'.list) :
                           seen'.list[k].is_center
                               => seen'.list[k].conf <= seen'.list[i].conf
                     /\ last_call'.key \in {speech_map(seen'.list[i].name),
                                            Warning(speech_map(seen'.list[i].name))}]_vars
    /\ [][(/\ seen' # seen
           /\ seen'.ran
           /\ \A k \in 1..Len(seen'.list) : ~seen'.list[k].is_center)
            => (~seen'.asked /\ UNCHANGED speechVars)]_vars

\* the loop has asked for "table": the list held an off-center person of
\* higher confidence and two in-center persons of lower confidence around it
C36_Witness ==
    /\ seen.ran
    /\ seen.asked
    /\ Len(seen.list) = 4
    /\ last_call.op = "announce"
    /\ last_call.key = "table"
    /\ last_call.ret

\* C37: a speech worker that ends clears the speaking flag, however it ends;
\* the flag is clear whenever no speech worker is alive, and a set flag is
\* cleared in the end; with no worker alive a non-forced alert whose key has
\* no entry or is at least the cooldown old is accepted and starts a worker,
\* also after a worker ended by an error or a timeout.
C37_FlagClearedWhenWorkerEnds ==
    /\ [][in_speech' < in_speech => ~speaking']_vars
    /\ [](~InFlight => ~speaking)
    /\ (speaking ~> ~speaking)
    /\ [][(/\ IsCall
           /\ last_call'.op = "speak"
           /\ ~last_call'.force
           /\ ~InFlight
           /\ \/ last_call'.age = NoEntry
              \/ last_call'.age >= SPEECH_COOLDOWN)
            => (last_call'.ret /\ created' = created + 1)]_vars

\* after a worker ran into its timeout and no worker was left, a non-forced
\* alert for a key that had fired at least the cooldown earlier was accepted
C37_Witness ==
    /\ last_outcome = "timeout"
    /\ last_call.op = "speak"
    /\ ~last_call.force
    /\ ~last_call.flight
    /\ last_call.age # NoEntry
    /\ last_call.ret
    /\ created = 1
    /\ in_speech = 0

\* C38: once vibration.cleanup() has stopped the PWM and released the GPIO,
\* no pulse thread calls set_intensity or off any more: every pulse thread
\* has ended before the release.
C38_NoPulseWriteAfterRelease ==
    /\ [][pwm_stops > 0
            => \A i \in 1..MaxPulse :
                 /\ ~(pulses[i].pc = "on" /\ pulses'[i].pc # "on")
                 /\ ~(pulses[i].pc = "check" /\ pulses'[i].pc = "on")]_vars
    /\ [](pwm_stops > 0 => Alive = {})

\* C39: when stop() has returned and the slow loop has ended, the camera
\* object the system holds is released, also one that the recovery of the
\* slow loop created while stop() was under way; and the camera.cleanup() of
\* the shutdown finds a camera that has not been released yet.
C39_NoCameraLeftAcquired ==
    /\ []((stop_pc = "done" /\ SlowExited) => camera = "released")
    /\ [][(/\ stop_pc \in {"all_off_wait", "cleanup_wait"}
           /\ stop_pc' \in {"speech_wait", "done"})
            => camera = "acquired"]_vars

\* C40: no thread waits for ever for the distance lock or the speech lock:
\* the fast loop, the slow loop and the main thread get the lock they wait
\* for; no thread holds both locks;
\* the speech lock is held only by a thread at the one statement inside its
\* with block, so that a thread that asks for it does not hold it already,
\* and the next step of its holder releases it; speech workers never hold it.
C40_NoDeadlockOnLocks ==
    /\ [](/\ speech_lock = "slow" <=> slow_pc \in {"reset", "start"}
          /\ speech_lock = "main" <=> status_pc = "speak"
          /\ speech_lock \in {"free", "slow", "main"}
          /\ ~(speech_lock = "slow" /\ distance_lock = "slow")
          /\ ~(speech_lock = "main" /\ distance_lock = "main")
          /\ slow_pc \in {"lock_reset", "lock_start"} => speech_lock # "slow"
          /\ status_pc = "speak_wait" => speech_lock # "main")
    /\ [][/\ (speech_lock = "slow" /\ slow_pc' # slow_pc) => speech_lock' = "free"
          /\ (speech_lock = "main" /\ status_pc' # status_pc) => speech_lock' = "free"
          /\ (in_speech' # in_speech) => speech_lock' = speech_lock]_vars
    /\ (fast_pc = "acquire" ~> fast_pc = "write")
    /\ (slow_pc \in {"acquire", "lock_reset", "lock_start"}
            ~> slow_pc \in {"read", "reset", "start"})
    /\ (status_pc = "speak_wait" ~> status_pc = "speak")

\* the slow loop waits for the speech lock to start the thread of a critical
\* warning, after its reset, while the main thread holds the lock; the fast
\* loop waits for the distance lock
C40_Witness ==
    /\ slow_pc = "lock_start"
    /\ ask.force
    /\ speech_lock = "main"
    /\ fast_pc = "acquire"

====
